---- MODULE Spec2Model ----
(***************************************************************************)
(* A model of the channels IndexedDB worker of xxdk-wasm: the event store  *)
(* (wasmModel over the generic IndexedDB helpers), the worker-side manager *)
(* that forwards notifications to the main thread, and the main-side       *)
(* NewWASMEventModel handshake.                                            *)
(***************************************************************************)
EXTENDS Integers, Sequences, FiniteSets, TLC

VARIABLES
    cipher,      \* wasmModel.cipher: TRUE when a cipher is configured (non-nil)
    channels,    \* object store "channels": primary key (base64 id) -> row
    messages,    \* object store "messages": primary key (uuid) -> row
    keyGen,      \* key generator of the auto-increment "messages" store
    last,        \* the last completed call: its inputs, return value, log
    prev,        \* the call completed before it
    nOps,        \* number of calls made so far (caps the exploration)
    spawned,     \* goroutines started for a notification and not yet run
    toMain,      \* messages posted by the worker, not yet handled by main
    toWorker,    \* messages posted by main, not yet handled by the worker
    delivered,   \* invocations of the callbacks registered on the main side
    task,        \* the calls that run concurrently: position and locals
    updateMux,   \* wasmModel.updateMux: 0 when free, else the holding task
    wait,        \* the requests that await a reply: state and time waited
    answered,    \* the requests for which the remote side produced a reply
    workerPc,    \* the worker: its start-up, then its handler of init-store
    registered,  \* the tags the worker has a handler registered for
    readySent,   \* the ready signals the worker has sent
    mainReady,   \* the main thread has observed the ready signal
    dmClients,   \* the JavaScript objects built for the DM clients
    dmInvoked,   \* the entries of those objects JavaScript has invoked
    dmResult,    \* the latest invocation: its arguments and what it returned
    promise,     \* the promise of newDMClientWithIndexedDb: its steps so far
    callNo,      \* the calls made so far of each request that awaits a reply
    handlerOf,   \* the call whose handler is registered for the reply's tag
    tookReply,   \* the replies delivered: the handler's call, the latest call
    returned     \* what the worker's handler returned for the latest call

storeVars == <<cipher, channels, messages, keyGen>>
busVars == <<toMain, toWorker, delivered>>
taskVars == <<task, updateMux>>
startVars == <<registered, readySent, mainReady>>
dmVars == <<dmClients, dmInvoked, dmResult, promise>>
regVars == <<callNo, handlerOf, tookReply>>
waitVars == <<wait, answered, workerPc, startVars, dmVars, regVars>>
vars == <<cipher, channels, messages, keyGen, last, prev, nOps, spawned, toMain, toWorker, delivered, task, updateMux, wait, answered, workerPc, registered, readySent, mainReady, dmClients, dmInvoked, dmResult, promise, callNo, handlerOf, tookReply, returned>>

----------------------------------------------------------------------------
(* Bounds of the exploration.                                              *)

\* Calls per behaviour of the sequential specification.
MaxOps == 2

\* Entries of the objects of the DM clients invoked per behaviour.
MaxInvoked == 2

\* The bindings.DMClient objects a DM client is made for.
DMApis == {1, 2}

\* Channel identifiers (id.ID) and protocol message identifiers (message.ID).
ChanIDs == {"c1", "c2"}
MsgIDs == {"m1", "m2"}

\* The calls that run concurrently in the concurrent specification.
TaskIDs == {1, 2}

\* The requests that await a reply: init-store, sent by the main thread,
\* store-database-name and store-encryption-status, sent by the worker.
Waiters == {"init", "name", "status"}

\* The calls of storeDatabaseName and of storeEncryptionStatus, numbered:
\* the first, and the one made again.
CallNos == {1, 2}

\* worker.ResponseTimeout, counted in ticks of the clock.
ResponseTimeout == 2

----------------------------------------------------------------------------
(* Values.                                                                 *)

\* A nil byte slice / nil pointer.
Nil == "nil"

\* The zero message.ID (message.ID{}), as GetMessage returns for no parent.
ZeroMsgID == "m0"

\* js.Undefined() as the result of a failed store call.
Undefined == [undefined |-> TRUE, int |-> 0]
JsInt(n) == [undefined |-> FALSE, int |-> n]

\* Error classes of the store helpers (impl.ErrDoesNotExist,
\* impl.ErrUniqueConstraint, any other failure of a transaction).
NoErr == "none"
ErrDoesNotExist == "result is undefined"
ErrUniqueConstraint == "at least one key does not satisfy the uniqueness requirements"
ErrTxn == "transaction failed"
ErrEncrypt == "encrypt failed"
ErrLookup == "uuid lookup failure"
ErrNoMessage == "no message found"

\* EncodeBytes: the base64 text IndexedDB holds for a byte slice.  json.Marshal
\* of a []byte field gives the same text, and null for a nil slice (of the
\* byte fields of a Message only the parent message id is ever nil).
EncodeBytes(b) == [b64 |-> b]
JsNull == [null |-> TRUE]
BytesToJS(b) == IF b = Nil THEN JsNull ELSE EncodeBytes(b)
BytesFromJS(v) == IF v = JsNull THEN Nil ELSE v.b64

\* strconv.FormatInt(n, 10) and strconv.ParseInt(s, 10, 64): decimal text
\* is a sign and a sequence of digits.
RECURSIVE Digits(_)
Digits(n) == IF n < 10 THEN <<n>> ELSE Append(Digits(n \div 10), n % 10)
FormatInt(n) ==
    IF n < 0 THEN [neg |-> TRUE, digits |-> Digits(0 - n)]
    ELSE [neg |-> FALSE, digits |-> Digits(n)]
RECURSIVE DigitsValue(_)
DigitsValue(s) ==
    IF Len(s) = 0 THEN 0
    ELSE 10 * DigitsValue(SubSeq(s, 1, Len(s) - 1)) + s[Len(s)]
ParseInt(s) == IF s.neg THEN 0 - DigitsValue(s.digits) ELSE DigitsValue(s.digits)
StrLen(s) == Len(s.digits) + (IF s.neg THEN 1 ELSE 0)

\* cryptoChannel.Cipher: Encrypt wraps the plaintext, Decrypt unwraps it.
Bytes(text) == [enc |-> FALSE, data |-> text]
Encrypt(t) == [enc |-> TRUE, data |-> t.data]
Decrypt(t) == [enc |-> FALSE, data |-> t.data]

----------------------------------------------------------------------------
(* The stored records and their conversion to and from JavaScript objects. *)

\* buildMessage: the Message structure of a receive call.  ID is left at its
\* zero value; Lease is kept as decimal text.
buildMessage(channelID, messageID, parentID, nickname, text, pubKey, dmToken, codeset, timestamp, lease, round, mType, pinned, hidden, status) ==
    [ID |-> 0,
     MessageID |-> messageID,
     Nickname |-> nickname,
     ChannelID |-> channelID,
     ParentMessageID |-> parentID,
     Timestamp |-> timestamp,
     Lease |-> FormatInt(lease),
     Status |-> status,
     Hidden |-> hidden,
     Pinned |-> pinned,
     Text |-> text,
     Type |-> mType,
     Round |-> round,
     Pubkey |-> pubKey,
     DmToken |-> dmToken,
     CodesetVersion |-> codeset]

\* json.Marshal followed by utils.JsonToJS: the object handed to the store.
MsgToJS(m) ==
    [id |-> m.ID,
     message_id |-> EncodeBytes(m.MessageID),
     nickname |-> m.Nickname,
     channel_id |-> EncodeBytes(m.ChannelID),
     parent_message_id |-> BytesToJS(m.ParentMessageID),
     timestamp |-> m.Timestamp,
     lease |-> m.Lease,
     status |-> m.Status,
     hidden |-> m.Hidden,
     pinned |-> m.Pinned,
     text |-> EncodeBytes(m.Text),
     type |-> m.Type,
     round |-> m.Round,
     pubkey |-> EncodeBytes(m.Pubkey),
     dm_token |-> m.DmToken,
     codeset_version |-> m.CodesetVersion]

\* utils.JsToJson followed by json.Unmarshal into a Message.
MsgFromJS(o) ==
    [ID |-> o.id,
     MessageID |-> o.message_id.b64,
     Nickname |-> o.nickname,
     ChannelID |-> o.channel_id.b64,
     ParentMessageID |-> BytesFromJS(o.parent_message_id),
     Timestamp |-> o.timestamp,
     Lease |-> o.lease,
     Status |-> o.status,
     Hidden |-> o.hidden,
     Pinned |-> o.pinned,
     Text |-> o.text.b64,
     Type |-> o.type,
     Round |-> o.round,
     Pubkey |-> o.pubkey.b64,
     DmToken |-> o.dm_token,
     CodesetVersion |-> o.codeset_version]

\* messageObj.Delete("id")
DeleteId(o) == [f \in (DOMAIN o) \ {"id"} |-> o[f]]

\* The Channel row JoinChannel builds, as a JavaScript object.
ChannelToJS(channelID, name, description) ==
    [id |-> EncodeBytes(channelID), name |-> name, description |-> description]

----------------------------------------------------------------------------
(* The object stores and the generic helpers over them.                    *)

\* The "messages" store: key path "id", auto-increment, a unique index on
\* the message id; the "channels" store: key path "id", no generator.
MessagesSchema == [autoIncrement |-> TRUE, unique |-> {"message_id"}]
ChannelsSchema == [autoIncrement |-> FALSE, unique |-> {}]

\* The record a store holds for value stored under key.
WithKey(value, key) ==
    [f \in (DOMAIN value) \cup {"id"} |-> IF f = "id" THEN key ELSE value[f]]

\* Another record holds the same key in a unique index.
PutViolatesUniqueOnInsert(rows, schema, value, key) ==
    /\ key \notin DOMAIN rows
    /\ \E k \in DOMAIN rows, ix \in schema.unique : rows[k][ix] = value[ix]
PutViolatesUnique(rows, schema, value, key) ==
    \E k \in DOMAIN rows, ix \in schema.unique :
        k # key /\ rows[k][ix] = value[ix]

\* A put whose generated key is the lowest key no record holds.
PutLowestFreeKey(rows, gen, schema, value, fault) ==
    LET free == CHOOSE k \in 1..(gen + 1) :
                    k \notin DOMAIN rows /\ \A j \in 1..(k - 1) : j \in DOMAIN rows
        key == IF "id" \in DOMAIN value THEN value.id ELSE free
    IN  IF fault
        THEN [rows |-> rows, gen |-> gen, result |-> Undefined, err |-> ErrTxn]
        ELSE IF PutViolatesUnique(rows, schema, value, key)
        THEN [rows |-> rows, gen |-> gen, result |-> Undefined,
              err |-> ErrUniqueConstraint]
        ELSE [rows |-> [k \in (DOMAIN rows) \cup {key} |->
                          IF k = key THEN WithKey(value, key) ELSE rows[k]],
              gen |-> IF schema.autoIncrement /\ key >= gen
                      THEN key + 1 ELSE gen,
              result |-> JsInt(key),
              err |-> NoErr]

\* An add in place of the put: a key that is already there is refused.
PutAdd(rows, gen, schema, value, fault) ==
    LET key == IF "id" \in DOMAIN value THEN value.id ELSE gen
    IN  IF fault
        THEN [rows |-> rows, gen |-> gen, result |-> Undefined, err |-> ErrTxn]
        ELSE IF key \in DOMAIN rows \/ PutViolatesUnique(rows, schema, value, key)
        THEN [rows |-> rows, gen |-> gen, result |-> Undefined,
              err |-> ErrUniqueConstraint]
        ELSE [rows |-> [k \in (DOMAIN rows) \cup {key} |->
                          IF k = key THEN WithKey(value, key) ELSE rows[k]],
              gen |-> IF schema.autoIncrement /\ key >= gen
                      THEN key + 1 ELSE gen,
              result |-> JsInt(key),
              err |-> NoErr]

\* Put: one read-write transaction putting value into a store.  The result
\* is the key on success and undefined with an error otherwise; a failed
\* request leaves the store and its key generator as they were.
Put(rows, gen, schema, value, fault) ==
    LET key == IF "id" \in DOMAIN value THEN value.id ELSE gen
    IN  IF fault
        THEN [rows |-> rows, gen |-> gen, result |-> Undefined, err |-> ErrTxn]
        ELSE IF PutViolatesUnique(rows, schema, value, key)
        THEN [rows |-> rows, gen |-> gen, result |-> Undefined,
              err |-> ErrUniqueConstraint]
        ELSE [rows |-> [k \in (DOMAIN rows) \cup {key} |->
                          IF k = key THEN WithKey(value, key) ELSE rows[k]],
              gen |-> IF schema.autoIncrement /\ key >= gen
                      THEN key + 1 ELSE gen,
              result |-> JsInt(key),
              err |-> NoErr]

\* Get: one read-only transaction by primary key; undefined is an error.
Get(rows, key, fault) ==
    IF fault THEN [value |-> Undefined, err |-> ErrTxn]
    ELSE IF key \notin DOMAIN rows
    THEN [value |-> Undefined, err |-> ErrDoesNotExist]
    ELSE [value |-> rows[key], err |-> NoErr]

\* GetIndex: one read-only transaction through an index; the record with
\* the lowest primary key among the matches, undefined is an error.
GetIndex(rows, indexField, key, fault) ==
    LET hits == {k \in DOMAIN rows : rows[k][indexField] = key}
    IN  IF fault THEN [value |-> Undefined, err |-> ErrTxn]
        ELSE IF hits = {}
        THEN [value |-> Undefined, err |-> ErrDoesNotExist]
        ELSE [value |-> rows[CHOOSE k \in hits : \A j \in hits : k <= j],
              err |-> NoErr]

\* A delete whose failure is not reported.
DeleteUnreported(rows, key, fault) ==
    [rows |-> [k \in (DOMAIN rows) \ {key} |-> rows[k]], err |-> NoErr]

\* Delete: one read-write transaction by primary key; deleting a key that
\* is not there succeeds.
Delete(rows, key, fault) ==
    IF fault THEN [rows |-> rows, err |-> ErrTxn]
    ELSE [rows |-> [k \in (DOMAIN rows) \ {key} |-> rows[k]], err |-> NoErr]

\* DeleteIndex: GetIndex, then Delete of the found record's primary key.
DeleteIndexLookupOnly(rows, indexField, key, faultGet, faultDelete) ==
    [rows |-> rows, err |-> GetIndex(rows, indexField, key, faultGet).err]
DeleteIndex(rows, indexField, key, faultGet, faultDelete) ==
    LET got == GetIndex(rows, indexField, key, faultGet)
    IN  IF got.err # NoErr THEN [rows |-> rows, err |-> got.err]
        ELSE Delete(rows, got.value.id, faultDelete)

----------------------------------------------------------------------------
(* wasmModel: the helpers of the event model.                              *)

\* Injected failures of one call: of the cipher, and of the first, second or
\* third store transaction the call runs.
Faults == {"none", "encrypt", "first", "second", "third"}

\* msgIDLookup: the Message with the given message id, through the index.
msgIDLookupAlwaysFound(rows, messageID, fault) ==
    LET got == GetIndex(rows, "message_id", EncodeBytes(messageID), fault)
    IN  IF got.err # NoErr
        THEN [msg |-> buildMessage(Nil, ZeroMsgID, Nil, 0, Bytes(0), 0, 0, 0,
                                   0, 0, 0, 0, FALSE, FALSE, 0),
              err |-> NoErr]
        ELSE [msg |-> MsgFromJS(got.value), err |-> NoErr]
msgIDLookup(rows, messageID, fault) ==
    LET got == GetIndex(rows, "message_id", EncodeBytes(messageID), fault)
    IN  IF got.err # NoErr THEN [msg |-> Nil, err |-> got.err]
        ELSE IF got.value = Undefined THEN [msg |-> Nil, err |-> ErrNoMessage]
        ELSE [msg |-> MsgFromJS(got.value), err |-> NoErr]

\* The object receiveHelper hands to Put: the primary key is unset for an
\* insert so that the store assigns it.
messageObj(newMessage, isUpdate) ==
    IF isUpdate THEN MsgToJS(newMessage) ELSE DeleteId(MsgToJS(newMessage))

\* receiveHelper after Put returned: only an error that is not the unique
\* constraint error is returned at once.
putErrorReturnedAlways(err) == err # NoErr
putErrorReturnedNever(err) == FALSE
putErrorReturned(err) == err # NoErr /\ err # ErrUniqueConstraint

\* receiveHelper after the lookup that follows an undefined Put result.
lookupOutcomeFailed(looked) == [uuid |-> 0, err |-> ErrLookup]
lookupOutcome(looked) ==
    IF looked.err = NoErr /\ looked.msg.ID # 0
    THEN [uuid |-> looked.msg.ID, err |-> NoErr]
    ELSE [uuid |-> 0, err |-> ErrLookup]

\* receiveHelper: Put, and on a duplicate the lookup of the existing row.
\* stored tells that the "Successfully stored message" line was logged.
receiveHelper(rows, gen, newMessage, isUpdate, faultPut, faultLookup) ==
    LET put == Put(rows, gen, MessagesSchema,
                   messageObj(newMessage, isUpdate), faultPut)
        looked == msgIDLookup(put.rows, newMessage.MessageID, faultLookup)
    IN  IF putErrorReturned(put.err)
        THEN [rows |-> put.rows, gen |-> put.gen, uuid |-> 0, err |-> put.err,
              stored |-> FALSE]
        ELSE IF put.result.undefined
        THEN [rows |-> put.rows, gen |-> put.gen,
              uuid |-> lookupOutcome(looked).uuid,
              err |-> lookupOutcome(looked).err, stored |-> FALSE]
        ELSE [rows |-> put.rows, gen |-> put.gen,
              uuid |-> put.result.int, err |-> NoErr, stored |-> TRUE]

\* The notifications handed to the registered callbacks (each in a goroutine
\* of its own).
MessageReceived(uuid, channelID, update) ==
    [tag |-> "MessageReceivedCallback", uuid |-> uuid,
     channelID |-> channelID, update |-> update]
DeletedMessage(messageID) ==
    [tag |-> "DeletedMessageCallback", messageID |-> messageID]
MutedUser(channelID, pubKey, unmute) ==
    [tag |-> "MutedUserCallback", channelID |-> channelID,
     pubKey |-> pubKey, unmute |-> unmute]

\* A nillable argument (a Go pointer): nil, or a value.
NilPtr == <<>>
Ptr(v) == <<v>>
IsNil(p) == p = NilPtr
Deref(p) == p[1]

\* The fields updateMessage overwrites: those whose pointer is not nil.
applyPatchZeroingRound(m, messageID, timestamp, round, pinned, hidden, status) ==
    [m EXCEPT
        !.Status = IF IsNil(status) THEN @ ELSE Deref(status),
        !.MessageID = IF IsNil(messageID) THEN @ ELSE Deref(messageID),
        !.Round = IF IsNil(round) THEN 0 ELSE Deref(round),
        !.Timestamp = IF IsNil(timestamp) THEN @ ELSE Deref(timestamp),
        !.Pinned = IF IsNil(pinned) THEN @ ELSE Deref(pinned),
        !.Hidden = IF IsNil(hidden) THEN @ ELSE Deref(hidden)]
applyPatch(m, messageID, timestamp, round, pinned, hidden, status) ==
    [m EXCEPT
        !.Status = IF IsNil(status) THEN @ ELSE Deref(status),
        !.MessageID = IF IsNil(messageID) THEN @ ELSE Deref(messageID),
        !.Round = IF IsNil(round) THEN @ ELSE Deref(round),
        !.Timestamp = IF IsNil(timestamp) THEN @ ELSE Deref(timestamp),
        !.Pinned = IF IsNil(pinned) THEN @ ELSE Deref(pinned),
        !.Hidden = IF IsNil(hidden) THEN @ ELSE Deref(hidden)]

\* updateMessage: patch the Message read from the store and store it again
\* under its own primary key; a stored update is notified.
updateMessage(rows, gen, currentMsg, messageID, timestamp, round, pinned, hidden, status, faultPut, faultLookup) ==
    LET newMessage == applyPatch(MsgFromJS(currentMsg), messageID, timestamp,
                                 round, pinned, hidden, status)
        r == receiveHelper(rows, gen, newMessage, TRUE, faultPut, faultLookup)
    IN  IF r.err # NoErr
        THEN [rows |-> r.rows, gen |-> r.gen, uuid |-> 0, err |-> r.err,
              stored |-> r.stored, emit |-> <<>>]
        ELSE [rows |-> r.rows, gen |-> r.gen, uuid |-> r.uuid, err |-> NoErr,
              stored |-> r.stored,
              emit |-> <<MessageReceived(r.uuid, newMessage.ChannelID, TRUE)>>]

\* deleteMsgByChannel: one read-write transaction whose cursor walks the
\* channel index and deletes every record it visits.
deleteMsgByChannelOfAll(rows, channelID, fault) ==
    IF fault THEN [rows |-> rows, err |-> ErrTxn]
    ELSE [rows |-> <<>>, err |-> NoErr]
deleteMsgByChannelFirstOnly(rows, channelID, fault) ==
    LET hits == {j \in DOMAIN rows :
                    rows[j].channel_id = EncodeBytes(channelID)}
        first == {j \in hits : \A i \in hits : j <= i}
    IN  IF fault THEN [rows |-> rows, err |-> ErrTxn]
        ELSE [rows |-> [k \in (DOMAIN rows) \ first |-> rows[k]],
              err |-> NoErr]
deleteMsgByChannel(rows, channelID, fault) ==
    IF fault THEN [rows |-> rows, err |-> ErrTxn]
    ELSE [rows |-> [k \in {j \in DOMAIN rows :
                             rows[j].channel_id # EncodeBytes(channelID)}
                      |-> rows[k]],
          err |-> NoErr]

\* id.ID.String: the base64 text of the identifier, the channel's key.
IDString(channelID) == EncodeBytes(channelID)

\* The channels.ModelMessage GetMessage builds from the looked-up Message;
\* the fields it does not assign keep their zero value.
modelMessage(lookupResult, messageID) ==
    [UUID |-> lookupResult.ID,
     Nickname |-> lookupResult.Nickname,
     MessageID |-> messageID,
     ChannelID |-> lookupResult.ChannelID,
     ParentMessageID |-> IF lookupResult.ParentMessageID # Nil
                         THEN lookupResult.ParentMessageID ELSE ZeroMsgID,
     Timestamp |-> lookupResult.Timestamp,
     Lease |-> IF StrLen(lookupResult.Lease) > 0
               THEN ParseInt(lookupResult.Lease) ELSE 0,
     Status |-> lookupResult.Status,
     Hidden |-> lookupResult.Hidden,
     Pinned |-> lookupResult.Pinned,
     Content |-> lookupResult.Text,
     Type |-> lookupResult.Type,
     Round |-> lookupResult.Round,
     PubKey |-> lookupResult.Pubkey,
     DmToken |-> 0,
     CodesetVersion |-> lookupResult.CodesetVersion]

----------------------------------------------------------------------------
(* The calls of the event model, each run to completion.  A call leaves in  *)
(* last what its caller and the log see: the arguments, the injected       *)
(* failure, the returned value and error, the notifications it spawned.    *)

\* The payloads that cross between the threads.
ErrDecode == "decode failed"

\* json.Marshal and json.Unmarshal of a message struct: a payload that is
\* not the JSON text of an object does not unmarshal.
Marshal(v) == [json |-> v]
Unmarshal(data) ==
    IF "json" \in DOMAIN data THEN [v |-> data.json, err |-> NoErr]
    ELSE [v |-> Nil, err |-> ErrDecode]

\* message.ID.Marshal and message.UnmarshalID: the bytes of the identifier;
\* bytes of another length give the zero identifier and an error.
MarshalID(messageID) == [raw |-> messageID]
UnmarshalID(data) ==
    IF "raw" \in DOMAIN data /\ data.raw \in MsgIDs \cup {ZeroMsgID}
    THEN [id |-> data.raw, err |-> NoErr]
    ELSE [id |-> ZeroMsgID, err |-> ErrDecode]

\* What a handler returns when it has no payload (nil), and the bytes of
\* a text ([]byte(text)).
NilData == [nil |-> TRUE]
TextData(text) == [text |-> text]

\* What the handler the worker has registered for an operation returns to
\* the thread manager after the call recorded in r: the response and the
\* error.  getMessageCB returns the marshalled reply, which holds the text
\* of the error of GetMessage or else the message; the field that is not
\* set keeps its zero value.
getMessageCBErrorDropped(r) ==
    [data |-> Marshal([Error |-> "",
                       Message |-> IF r.err # NoErr THEN <<>> ELSE <<r.out>>]),
     err |-> NoErr]
getMessageCB(r) ==
    [data |-> Marshal(IF r.err # NoErr
                      THEN [Error |-> r.err, Message |-> <<>>]
                      ELSE [Error |-> "", Message |-> <<r.out>>]),
     err |-> NoErr]

\* deleteMessageCB returns the text of the error of DeleteMessage, or nil.
deleteMessageCB(r) ==
    [data |-> IF r.err # NoErr THEN TextData(r.err) ELSE NilData,
     err |-> NoErr]

\* updateFromMessageIDCB returns the marshalled UUID that
\* UpdateFromMessageID returned.
updateFromMessageIDCB(r) == [data |-> Marshal(r.ret), err |-> NoErr]

\* The handlers of the receive variants return the marshalled UUID; those
\* of JoinChannel, LeaveChannel, UpdateFromUUID and MuteUser return nil.
callbackReturn(r) ==
    CASE r.op = "GetMessage" -> getMessageCB(r)
      [] r.op = "DeleteMessage" -> deleteMessageCB(r)
      [] r.op = "UpdateFromMessageID" -> updateFromMessageIDCB(r)
      [] r.op \in {"ReceiveMessage", "ReceiveReply", "ReceiveReaction"} ->
             [data |-> Marshal(r.ret), err |-> NoErr]
      [] OTHER -> [data |-> NilData, err |-> NoErr]

\* The handler of the call that has just completed returns.
Responded == returned' = callbackReturn(last')

\* One more call has been made.
Called ==
    /\ nOps < MaxOps
    /\ nOps' = nOps + 1
    /\ prev' = last
    /\ UNCHANGED <<busVars, taskVars, waitVars>>

\* The goroutines a call starts, one for each notification it hands to a
\* registered callback; by and op tell the call that started them.
goroutines(by, op, emit) ==
    {[by |-> by, op |-> op, note |-> emit[i]] : i \in DOMAIN emit}

\* The call that has just completed started its goroutines.
GoAfterEarlier ==
    /\ spawned = {} /\ toMain = <<>>
    /\ spawned' = spawned \cup goroutines(nOps', last'.op, last'.emit)
Go == spawned' = spawned \cup goroutines(nOps', last'.op, last'.emit)

\* The arguments of a receive call as the caller passed them.
RecvIn(channelID, messageID, replyTo, nickname, text, pubKey, dmToken, codeset, timestamp, lease, round, mType, status, hidden) ==
    [channelID |-> channelID, messageID |-> messageID, replyTo |-> replyTo,
     nickname |-> nickname, text |-> text, pubKey |-> pubKey,
     dmToken |-> dmToken, codeset |-> codeset, timestamp |-> timestamp,
     lease |-> lease, round |-> round, mType |-> mType, status |-> status,
     hidden |-> hidden]

\* The store call of a receive variant and what follows it: the
\* notification is spawned whatever receiveHelper returned.
Received(op, in, msgToInsert, fault) ==
    LET r == receiveHelper(messages, keyGen, msgToInsert, FALSE,
                           fault = "first", fault = "second")
    IN  /\ messages' = r.rows
        /\ keyGen' = r.gen
        /\ last' = [op |-> op, in |-> in, fault |-> fault, ret |-> r.uuid,
                    err |-> r.err, stored |-> r.stored,
                    emit |-> <<MessageReceived(r.uuid, in.channelID, FALSE)>>]

\* A receive variant whose Encrypt failed: returns 0 at once.
EncryptFailedCarriesOn(op, in) ==
    LET r == receiveHelper(messages, keyGen,
                 buildMessage(in.channelID, in.messageID, Nil, in.nickname,
                     Bytes(in.text), in.pubKey, in.dmToken, in.codeset,
                     in.timestamp, in.lease, in.round, in.mType, FALSE,
                     in.hidden, in.status),
                 FALSE, FALSE, FALSE)
    IN  /\ messages' = r.rows
        /\ keyGen' = r.gen
        /\ last' = [op |-> op, in |-> in, fault |-> "encrypt",
                    ret |-> r.uuid, err |-> r.err, stored |-> r.stored,
                    emit |-> <<MessageReceived(r.uuid, in.channelID, FALSE)>>]
EncryptFailed(op, in) ==
    /\ UNCHANGED <<messages, keyGen>>
    /\ last' = [op |-> op, in |-> in, fault |-> "encrypt", ret |-> 0,
                err |-> ErrEncrypt, stored |-> FALSE, emit |-> <<>>]

\* textBytes after the cipher, if there is one, has been applied.
textBytesPlain(text) == Bytes(text)
textBytes(text) == IF cipher THEN Encrypt(Bytes(text)) ELSE Bytes(text)

ReceiveMessage(channelID, messageID, nickname, text, pubKey, dmToken, codeset, timestamp, lease, round, mType, status, hidden, fault) ==
    /\ Called
    /\ fault = "encrypt" => cipher      \* Encrypt is called with a cipher only
    /\ LET in == RecvIn(channelID, messageID, ZeroMsgID, nickname, text,
                        pubKey, dmToken, codeset, timestamp, lease, round,
                        mType, status, hidden)
       IN  IF fault = "encrypt"
           THEN EncryptFailed("ReceiveMessage", in)
           ELSE Received("ReceiveMessage", in,
                    buildMessage(channelID, messageID, Nil, nickname,
                        textBytes(text), pubKey, dmToken, codeset, timestamp,
                        lease, round, mType, FALSE, hidden, status),
                    fault)
    /\ UNCHANGED <<cipher, channels>>
    /\ Go
    /\ Responded

ReceiveReply(channelID, messageID, replyTo, nickname, text, pubKey, dmToken, codeset, timestamp, lease, round, mType, status, hidden, fault) ==
    /\ Called
    /\ fault = "encrypt" => cipher      \* Encrypt is called with a cipher only
    /\ LET in == RecvIn(channelID, messageID, replyTo, nickname, text,
                        pubKey, dmToken, codeset, timestamp, lease, round,
                        mType, status, hidden)
       IN  IF fault = "encrypt"
           THEN EncryptFailed("ReceiveReply", in)
           ELSE Received("ReceiveReply", in,
                    buildMessage(channelID, messageID, replyTo, nickname,
                        textBytes(text), pubKey, dmToken, codeset, timestamp,
                        lease, round, mType, hidden, FALSE, status),
                    fault)
    /\ UNCHANGED <<cipher, channels>>
    /\ Go
    /\ Responded

ReceiveReaction(channelID, messageID, reactionTo, nickname, reaction, pubKey, dmToken, codeset, timestamp, lease, round, mType, status, hidden, fault) ==
    /\ Called
    /\ fault = "encrypt" => cipher      \* Encrypt is called with a cipher only
    /\ LET in == RecvIn(channelID, messageID, reactionTo, nickname, reaction,
                        pubKey, dmToken, codeset, timestamp, lease, round,
                        mType, status, hidden)
       IN  IF fault = "encrypt"
           THEN EncryptFailed("ReceiveReaction", in)
           ELSE Received("ReceiveReaction", in,
                    buildMessage(channelID, messageID, reactionTo, nickname,
                        textBytes(reaction), pubKey, dmToken, codeset,
                        timestamp, lease, round, mType, FALSE, hidden,
                        status),
                    fault)
    /\ UNCHANGED <<cipher, channels>>
    /\ Go
    /\ Responded

JoinChannel(channelID, name, description, fault) ==
    /\ Called
    /\ LET put == Put(channels, 0, ChannelsSchema,
                      ChannelToJS(channelID, name, description),
                      fault = "first")
       IN  /\ channels' = put.rows
           /\ last' = [op |-> "JoinChannel", channelID |-> channelID,
                       name |-> name, description |-> description,
                       fault |-> fault, err |-> put.err, emit |-> <<>>]
    /\ UNCHANGED <<cipher, messages, keyGen>>
    /\ Go
    /\ Responded

LeaveChannel(channelID, fault) ==
    /\ Called
    /\ LET del == Delete(channels, IDString(channelID), fault = "first")
           casc == deleteMsgByChannel(messages, channelID, fault = "second")
           had == Cardinality({k \in DOMAIN messages :
                      messages[k].channel_id = EncodeBytes(channelID)})
           joined == IDString(channelID) \in DOMAIN channels
       IN  IF del.err # NoErr
           THEN /\ UNCHANGED <<channels, messages>>
                /\ last' = [op |-> "LeaveChannel", channelID |-> channelID,
                            fault |-> fault, had |-> had,
                            joined |-> joined, err |-> del.err,
                            emit |-> <<>>]
           ELSE /\ channels' = del.rows
                /\ messages' = casc.rows
                /\ last' = [op |-> "LeaveChannel", channelID |-> channelID,
                            fault |-> fault, had |-> had,
                            joined |-> joined, err |-> casc.err,
                            emit |-> <<>>]
    /\ UNCHANGED <<cipher, keyGen>>
    /\ Go
    /\ Responded

UpdateFromUUID(uuid, messageID, timestamp, round, pinned, hidden, status, fault) ==
    /\ Called
    /\ LET got == Get(messages, uuid, fault = "first")
           patch == [messageID |-> messageID, timestamp |-> timestamp,
                     round |-> round, pinned |-> pinned, hidden |-> hidden,
                     status |-> status]
           upd == updateMessage(messages, keyGen, got.value, messageID,
                      timestamp, round, pinned, hidden, status,
                      fault = "second", fault = "third")
       IN  IF got.err # NoErr
           THEN /\ UNCHANGED <<messages, keyGen>>
                /\ last' = [op |-> "UpdateFromUUID", uuid |-> uuid,
                            patch |-> patch, fault |-> fault, ret |-> 0,
                            err |-> got.err, stored |-> FALSE,
                            emit |-> <<>>]
           ELSE /\ messages' = upd.rows
                /\ keyGen' = upd.gen
                /\ last' = [op |-> "UpdateFromUUID", uuid |-> uuid,
                            patch |-> patch, fault |-> fault,
                            currentMsg |-> got.value,
                            ret |-> upd.uuid, err |-> upd.err,
                            stored |-> upd.stored, emit |-> upd.emit]
    /\ UNCHANGED <<cipher, channels>>
    /\ Go
    /\ Responded

UpdateFromMessageID(messageID, timestamp, round, pinned, hidden, status, fault) ==
    /\ Called
    /\ LET got == GetIndex(messages, "message_id", EncodeBytes(messageID),
                           fault = "first")
           patch == [messageID |-> Ptr(messageID), timestamp |-> timestamp,
                     round |-> round, pinned |-> pinned, hidden |-> hidden,
                     status |-> status]
           upd == updateMessage(messages, keyGen, got.value, Ptr(messageID),
                      timestamp, round, pinned, hidden, status,
                      fault = "second", fault = "third")
       IN  IF got.err # NoErr
           THEN /\ UNCHANGED <<messages, keyGen>>
                /\ last' = [op |-> "UpdateFromMessageID",
                            messageID |-> messageID, patch |-> patch,
                            fault |-> fault, ret |-> 0, err |-> got.err,
                            stored |-> FALSE, emit |-> <<>>]
           ELSE /\ messages' = upd.rows
                /\ keyGen' = upd.gen
                /\ last' = [op |-> "UpdateFromMessageID",
                            messageID |-> messageID, patch |-> patch,
                            fault |-> fault, currentMsg |-> got.value,
                            ret |-> upd.uuid,
                            err |-> upd.err, stored |-> upd.stored,
                            emit |-> upd.emit]
    /\ UNCHANGED <<cipher, channels>>
    /\ Go
    /\ Responded

GetMessage(messageID, fault) ==
    /\ Called
    /\ LET lookupResult == msgIDLookup(messages, messageID, fault = "first")
       IN  IF lookupResult.err # NoErr
           THEN last' = [op |-> "GetMessage", messageID |-> messageID,
                         fault |-> fault, err |-> lookupResult.err,
                         emit |-> <<>>]
           ELSE last' = [op |-> "GetMessage", messageID |-> messageID,
                         fault |-> fault, err |-> NoErr, emit |-> <<>>,
                         out |-> modelMessage(lookupResult.msg, messageID)]
    /\ UNCHANGED storeVars
    /\ Go
    /\ Responded

DeleteMessage(messageID, fault) ==
    /\ Called
    /\ LET del == DeleteIndex(messages, "message_id", EncodeBytes(messageID),
                              fault = "first", fault = "second")
       IN  /\ messages' = del.rows
           /\ last' = [op |-> "DeleteMessage", messageID |-> messageID,
                       fault |-> fault, err |-> del.err,
                       emit |-> IF del.err # NoErr THEN <<>>
                                ELSE <<DeletedMessage(messageID)>>]
    /\ UNCHANGED <<cipher, channels, keyGen>>
    /\ Go
    /\ Responded

MuteUser(channelID, pubKey, unmute) ==
    /\ Called
    /\ last' = [op |-> "MuteUser", channelID |-> channelID,
                pubKey |-> pubKey, unmute |-> unmute, fault |-> "none",
                err |-> NoErr,
                emit |-> <<MutedUser(channelID, pubKey, unmute)>>]
    /\ UNCHANGED storeVars
    /\ Go
    /\ Responded

----------------------------------------------------------------------------
(* The sequential specification: calls made one after the other.           *)

\* The nillable arguments of an update call, in the order messageID,
\* timestamp, round, pinned, hidden, status: one set, or some set together.
PatchPinned == <<NilPtr, NilPtr, NilPtr, Ptr(TRUE), NilPtr, NilPtr>>
PatchStatus == <<NilPtr, NilPtr, NilPtr, NilPtr, NilPtr, Ptr(2)>>
PatchMany == <<NilPtr, Ptr(99), Ptr(98), NilPtr, Ptr(FALSE), NilPtr>>
PatchMessageID == <<Ptr("m2"), NilPtr, NilPtr, NilPtr, NilPtr, NilPtr>>
PatchHidden == <<NilPtr, NilPtr, NilPtr, NilPtr, Ptr(TRUE), NilPtr>>
PatchesUUID == {PatchPinned, PatchMany, PatchMessageID}
PatchesMessageID == {PatchStatus, PatchMany, PatchHidden}

\* The primary keys an update by UUID is tried on: keys the generator has
\* handed out, and the next one, which no row has.
UUIDs == {1, 2, keyGen}

\* The inputs of the receive calls: channel, message id and one of two
\* bundles of the other arguments (nickname 10 + p, text 20 + p, public key
\* 30 + p, token 40 + p, codeset p, timestamp 50 + p, lease 30 * (p - 1),
\* round 60 + p, type p, status p - 1, hidden for bundle 2).
MessageInputs == {<<"c1", "m1", 2>>, <<"c1", "m2", 1>>, <<"c2", "m2", 2>>}
ReplyInputs == {<<"c1", "m2", 2>>, <<"c2", "m1", 1>>}
ReactionInputs == {<<"c1", "m2", 1>>, <<"c2", "m1", 2>>}
ReplyTo == "m1"
JoinInputs == {<<"c1", "random", "d2">>, <<"c2", "general", "d1">>}
PubKeys == {31}

\* The store an earlier session left behind: channel c1, joined, and in it
\* message m1, received with bundle 1 and stored under the first key.
EarlierChannels ==
    Put(<<>>, 0, ChannelsSchema, ChannelToJS("c1", "general", "d1"),
        FALSE).rows
EarlierMessages(textOf11) ==
    Put(<<>>, 1, MessagesSchema,
        messageObj(buildMessage("c1", "m1", Nil, 11, textOf11, 31, 41, 1, 51,
                                0, 61, 1, FALSE, FALSE, 0), FALSE),
        FALSE).rows

\* The database is created empty or opened with what an earlier session
\* stored in it.
Init ==
    /\ cipher \in BOOLEAN
    /\ \E reopened \in BOOLEAN :
           IF reopened
           THEN /\ channels = EarlierChannels
                /\ messages = EarlierMessages(textBytes(21))
                /\ keyGen = 2
           ELSE /\ channels = <<>>
                /\ messages = <<>>
                /\ keyGen = 1
    /\ last = [op |-> "init", fault |-> "none", err |-> NoErr, emit |-> <<>>]
    /\ prev = last
    /\ nOps = 0
    /\ spawned = {}
    /\ toMain = <<>>
    /\ toWorker = <<>>
    /\ delivered = <<>>
    /\ task = [t \in TaskIDs |-> [pc |-> "idle"]]
    /\ updateMux = 0
    /\ wait = [w \in Waiters |->
                  [state |-> "idle", elapsed |-> 0, reply |-> Nil,
                   err |-> NoErr, late |-> FALSE]]
    /\ answered = {}
    /\ workerPc = "start"
    /\ registered = {}
    /\ readySent = 0
    /\ mainReady = FALSE
    /\ dmClients = <<>>
    /\ dmInvoked = <<>>
    /\ dmResult = [method |-> "none", args |-> <<>>, blocked |-> {},
                   value |-> [none |-> TRUE]]
    /\ promise = [api \in DMApis |->
                     [pc |-> "idle", rejects |-> 0, resolves |-> 0,
                      failedAt |-> "none", ranAfterFailure |-> FALSE]]
    /\ callNo = [w \in Waiters |-> 0]
    /\ handlerOf = [w \in Waiters |-> 0]
    /\ tookReply = [w \in Waiters |-> {}]
    /\ returned = [data |-> NilData, err |-> NoErr]

\* A receive call with the arguments of bundle p.
ReceiveMessageOf(c, m, p, f) ==
    ReceiveMessage(c, m, 10 + p, 20 + p, 30 + p, 40 + p, p, 50 + p,
                   30 * (p - 1), 60 + p, p, p - 1, p = 2, f)
ReceiveReplyOf(c, m, p, f) ==
    ReceiveReply(c, m, ReplyTo, 10 + p, 20 + p, 30 + p, 40 + p, p, 50 + p,
                 30 * (p - 1), 60 + p, p, p - 1, p = 2, f)
ReceiveReactionOf(c, m, p, f) ==
    ReceiveReaction(c, m, ReplyTo, 10 + p, 20 + p, 30 + p, 40 + p, p, 50 + p,
                    30 * (p - 1), 60 + p, p, p - 1, p = 2, f)

\* The calls on a store whose transactions all succeed.
NextHealthy ==
    \/ \E i \in JoinInputs : JoinChannel(i[1], i[2], i[3], "none")
    \/ \E c \in ChanIDs : LeaveChannel(c, "none")
    \/ \E i \in MessageInputs : ReceiveMessageOf(i[1], i[2], i[3], "none")
    \/ \E i \in ReplyInputs : ReceiveReplyOf(i[1], i[2], i[3], "none")
    \/ \E i \in ReactionInputs : ReceiveReactionOf(i[1], i[2], i[3], "none")
    \/ \E u \in UUIDs, pt \in PatchesUUID :
           UpdateFromUUID(u, pt[1], pt[2], pt[3], pt[4], pt[5], pt[6], "none")
    \/ \E m \in MsgIDs, pt \in PatchesMessageID :
           UpdateFromMessageID(m, pt[2], pt[3], pt[4], pt[5], pt[6], "none")
    \/ \E m \in MsgIDs : GetMessage(m, "none")
    \/ \E m \in MsgIDs : DeleteMessage(m, "none")
    \/ \E k \in PubKeys, u \in BOOLEAN : MuteUser("c1", k, u)

\* The same calls with a failure injected into the cipher or into one of
\* the store transactions of the call.
NextFaulty ==
    \/ \E i \in JoinInputs : JoinChannel(i[1], i[2], i[3], "first")
    \/ \E c \in {"c1"}, f \in {"first", "second"} : LeaveChannel(c, f)
    \/ \E c \in {"c1"}, f \in {"encrypt", "first", "second"} :
           ReceiveMessageOf(c, "m1", 2, f)
    \/ \E c \in {"c1"}, f \in {"encrypt"} : ReceiveReplyOf(c, "m2", 2, f)
    \/ \E c \in {"c1"}, f \in {"encrypt"} : ReceiveReactionOf(c, "m2", 1, f)
    \/ \E u \in {1}, pt \in {PatchPinned}, f \in {"first", "second", "third"} :
           UpdateFromUUID(u, pt[1], pt[2], pt[3], pt[4], pt[5], pt[6], f)
    \/ \E m \in {"m1"}, pt \in {PatchPinned}, f \in {"first", "second"} :
           UpdateFromMessageID(m, pt[2], pt[3], pt[4], pt[5], pt[6], f)
    \/ \E m \in {"m1"} : GetMessage(m, "first")
    \/ \E m \in {"m1"}, f \in {"first", "second"} : DeleteMessage(m, f)

Next == NextHealthy \/ NextFaulty

Spec == Init /\ [][Next]_vars

----------------------------------------------------------------------------
(* Properties of the sequential specification.                             *)

RecvOps == {"ReceiveMessage", "ReceiveReply", "ReceiveReaction"}
UpdateOps == {"UpdateFromUUID", "UpdateFromMessageID"}

\* The primary keys of the rows that carry message id mid.
RowsOf(mid) ==
    {k \in DOMAIN messages : messages[k].message_id = EncodeBytes(mid)}

\* C1: a receive call on a store whose transactions succeed returns without
\* error the non-zero key of the one row that carries its message id; when
\* the call before it was a receive of the same message id, it returns the
\* key that call returned and stores no row of its own, so the unique
\* constraint error of its insert is not returned.
C1_ReceiveIdempotent ==
    (last.op \in RecvOps /\ last.fault = "none") =>
        /\ last.err = NoErr
        /\ last.ret # 0
        /\ RowsOf(last.in.messageID) = {last.ret}
        /\ (/\ prev.op \in RecvOps
            /\ prev.fault = "none"
            /\ prev.in.messageID = last.in.messageID)
           => (last.ret = prev.ret /\ ~last.stored)

\* Two receive calls in a row with the same message id and different
\* content: the first stored the row, the second returned its key.
C1_SecondReceive ==
    /\ last.op \in RecvOps /\ prev.op \in RecvOps
    /\ last.fault = "none" /\ prev.fault = "none"
    /\ last.in.messageID = prev.in.messageID
    /\ last.in # prev.in
    /\ prev.stored /\ ~last.stored
    /\ last.ret = prev.ret /\ last.ret # 0
    /\ RowsOf(last.in.messageID) = {last.ret}

\* C2: in every reachable state no two rows of the messages store carry the
\* same message id.
C2_UniqueMessageID ==
    \A j \in DOMAIN messages, k \in DOMAIN messages :
        messages[j].message_id = messages[k].message_id => j = k

\* An update by UUID whose patch sets the message id to the one another row
\* carries has run, and both rows are still there.
C2_ConflictingUpdate ==
    /\ last.op = "UpdateFromUUID" /\ last.fault = "none"
    /\ ~IsNil(last.patch.messageID)
    /\ last.uuid \in DOMAIN messages
    /\ \E k \in DOMAIN messages :
           /\ k # last.uuid
           /\ messages[k].message_id =
                  EncodeBytes(Deref(last.patch.messageID))

\* C3: after a LeaveChannel call that completed without error the channel
\* has no row in the channels store and no row of the messages store
\* carries its channel id.
C3_CascadeDelete ==
    (last.op = "LeaveChannel" /\ last.err = NoErr) =>
        /\ IDString(last.channelID) \notin DOMAIN channels
        /\ \A k \in DOMAIN messages :
               messages[k].channel_id # EncodeBytes(last.channelID)

\* A joined channel that held several messages has been left.
C3_LeftManyMessages ==
    /\ last.op = "LeaveChannel" /\ last.err = NoErr
    /\ last.joined
    /\ last.had >= 2
    /\ IDString(last.channelID) \notin DOMAIN channels

\* The fields of a stored row that the patch of an update call names.
PatchFields(patch) ==
    {f \in {"message_id", "timestamp", "round", "pinned", "hidden", "status"} :
        \/ f = "message_id" /\ ~IsNil(patch.messageID)
        \/ f = "timestamp" /\ ~IsNil(patch.timestamp)
        \/ f = "round" /\ ~IsNil(patch.round)
        \/ f = "pinned" /\ ~IsNil(patch.pinned)
        \/ f = "hidden" /\ ~IsNil(patch.hidden)
        \/ f = "status" /\ ~IsNil(patch.status)}

\* C4: after an update call that read its row, every field of the row that
\* the patch does not name has the value it had before the call; when the
\* row was stored again the fields the patch names have the patch's values,
\* and when it was not the row is as it was.
C4_PartialUpdate ==
    (last.op \in UpdateOps /\ "currentMsg" \in DOMAIN last) =>
        LET old == last.currentMsg
            patch == last.patch
        IN  /\ old.id \in DOMAIN messages
            /\ \A f \in (DOMAIN old) \ PatchFields(patch) :
                   messages[old.id][f] = old[f]
            /\ last.stored =>
                   /\ IsNil(patch.messageID) \/
                        messages[old.id].message_id =
                            EncodeBytes(Deref(patch.messageID))
                   /\ IsNil(patch.timestamp) \/
                        messages[old.id].timestamp = Deref(patch.timestamp)
                   /\ IsNil(patch.round) \/
                        messages[old.id].round = Deref(patch.round)
                   /\ IsNil(patch.pinned) \/
                        messages[old.id].pinned = Deref(patch.pinned)
                   /\ IsNil(patch.hidden) \/
                        messages[old.id].hidden = Deref(patch.hidden)
                   /\ IsNil(patch.status) \/
                        messages[old.id].status = Deref(patch.status)
            /\ ~last.stored => messages[old.id] = old

\* An update by UUID with only pinned in its patch has pinned a row that
\* was not pinned.
C4_PinnedOnly ==
    /\ last.op = "UpdateFromUUID" /\ last.stored
    /\ PatchFields(last.patch) = {"pinned"}
    /\ ~last.currentMsg.pinned
    /\ messages[last.uuid].pinned
    /\ messages[last.uuid].round # 0

\* C5: GetMessage called right after the receive call that stored the
\* message returns, without error, that call's arguments (the text as the
\* store holds it, whatever the cipher made of it) and the key it returned.
C5_RoundTrip ==
    (/\ last.op = "GetMessage" /\ last.fault = "none"
     /\ prev.op \in RecvOps /\ prev.stored
     /\ prev.in.messageID = last.messageID)
    => /\ last.err = NoErr
       /\ last.out.UUID = prev.ret
       /\ last.out.ChannelID = prev.in.channelID
       /\ last.out.MessageID = prev.in.messageID
       /\ last.out.ParentMessageID =
              (IF prev.op = "ReceiveMessage" THEN ZeroMsgID
               ELSE prev.in.replyTo)
       /\ last.out.Nickname = prev.in.nickname
       /\ last.out.PubKey = prev.in.pubKey
       /\ last.out.DmToken = prev.in.dmToken
       /\ last.out.CodesetVersion = prev.in.codeset
       /\ last.out.Timestamp = prev.in.timestamp
       /\ last.out.Lease = prev.in.lease
       /\ last.out.Round = prev.in.round
       /\ last.out.Type = prev.in.mType
       /\ last.out.Status = prev.in.status
       /\ last.out.Hidden = prev.in.hidden
       /\ last.out.Content.data = prev.in.text

\* C7: a GetMessage call for a message id no row carries fails, with the
\* "result is undefined" error when its transaction ran, and returns no
\* message; a call that succeeds returns the key of a row that carries the
\* message id.
C7_GetMessageNotFound ==
    (last.op = "GetMessage") =>
        /\ RowsOf(last.messageID) = {} =>
               /\ last.err # NoErr
               /\ last.fault = "none" => last.err = ErrDoesNotExist
               /\ "out" \notin DOMAIN last
        /\ last.err = NoErr => last.out.UUID \in RowsOf(last.messageID)

\* GetMessage has failed for a message that was stored and went away with
\* its channel.
C7_GoneWithChannel ==
    /\ last.op = "GetMessage" /\ last.err = ErrDoesNotExist
    /\ prev.op = "LeaveChannel" /\ prev.err = NoErr /\ prev.had >= 1
    /\ last.messageID = "m1"
    /\ keyGen >= 2
    /\ RowsOf(last.messageID) = {}

\* C14: JoinChannel replaces: when its put is not failed the call raises
\* no error, whether or not the identifier already has a Channel row; after
\* it exactly one Channel row has the identifier and holds the name and the
\* description of this call, the other Channel rows are as they were, and
\* the Message rows and the key generator are untouched.
C14_JoinChannelReplaces ==
    [][(nOps' = nOps + 1 /\ last'.op = "JoinChannel"
            /\ last'.fault = "none") =>
          LET key == EncodeBytes(last'.channelID)
          IN  /\ last'.err = NoErr
              /\ DOMAIN channels' = (DOMAIN channels) \cup {key}
              /\ Cardinality({k \in DOMAIN channels' :
                                 channels'[k].id = key}) = 1
              /\ channels'[key] = [id |-> key, name |-> last'.name,
                                   description |-> last'.description]
              /\ \A k \in (DOMAIN channels) \ {key} :
                     channels'[k] = channels[k]
              /\ messages' = messages
              /\ keyGen' = keyGen
              /\ spawned' = spawned]_vars

\* The first call on a reopened store, which holds the channel under
\* another name and a message of it, joined the channel again: one Channel
\* row, with the new name, and the message still there.
C14_JoinedAgain ==
    /\ nOps = 1 /\ prev.op = "init"
    /\ last.op = "JoinChannel" /\ last.err = NoErr
    /\ last.name = "random" /\ last.description = "d2"
    /\ DOMAIN channels = {EncodeBytes(last.channelID)}
    /\ channels[EncodeBytes(last.channelID)].name = "random"
    /\ channels[EncodeBytes(last.channelID)].description = "d2"
    /\ \E k \in DOMAIN messages :
           messages[k].channel_id = EncodeBytes(last.channelID)

\* C15: when the delete of the Channel row fails, LeaveChannel returns
\* there: the failure is the call's outcome, no Message row is removed or
\* changed, and the Channel rows are as they were.
C15_LeaveChannelStopsAtFailedDelete ==
    [][(nOps' = nOps + 1 /\ last'.op = "LeaveChannel"
            /\ last'.fault = "first") =>
          /\ last'.err = ErrTxn
          /\ messages' = messages
          /\ channels' = channels
          /\ keyGen' = keyGen]_vars

\* The delete of a joined channel that has messages failed: the channel and
\* its messages are all still stored.
C15_LeaveFailedWithMessages ==
    /\ last.op = "LeaveChannel" /\ last.fault = "first"
    /\ last.err # NoErr /\ last.joined /\ last.had > 0
    /\ IDString(last.channelID) \in DOMAIN channels
    /\ Cardinality({k \in DOMAIN messages :
           messages[k].channel_id = EncodeBytes(last.channelID)}) = last.had

\* C18: with a cipher, the text of every stored Message row is output of
\* the cipher and not the bytes of a text a caller passed; a receive that
\* stores a row stores the encryption of its text, and an update leaves the
\* text of every row it keeps as it was.
C18_TextIsCiphertext ==
    /\ [](cipher =>
             \A k \in DOMAIN messages :
                 /\ messages[k].text.b64.enc
                 /\ last.op \in RecvOps => messages[k].text.b64 # Bytes(last.in.text))
    /\ [][(cipher /\ nOps' = nOps + 1 /\ last'.op \in RecvOps) =>
             \A k \in (DOMAIN messages') \ (DOMAIN messages) :
                 messages'[k].text = EncodeBytes(Encrypt(Bytes(last'.in.text)))]_vars
    /\ [][(nOps' = nOps + 1 /\ last'.op \in UpdateOps) =>
             \A k \in (DOMAIN messages') \cap (DOMAIN messages) :
                 messages'[k].text = messages[k].text]_vars

\* With a cipher, a message was received and stored, then updated: its row
\* holds the encryption of the text of the receive.
C18_UpdatedCiphertext ==
    /\ cipher
    /\ prev.op \in RecvOps /\ prev.err = NoErr /\ prev.stored
    /\ last.op \in UpdateOps /\ last.err = NoErr /\ last.stored
    /\ \E k \in DOMAIN messages :
           /\ messages[k].message_id = EncodeBytes(prev.in.messageID)
           /\ messages[k].text = EncodeBytes(Encrypt(Bytes(prev.in.text)))
           /\ messages[k].id = last.ret

\* C19: every Message row is stored under the identifier it holds, below
\* the key generator, which never goes back; a row appears only by a
\* receive, under a key at or above the generator, which the receive
\* returns, so that no identifier a row ever had is given again, deletions
\* or not; an update leaves the set of rows and their identifiers as they
\* were; a receive that succeeds returns the identifier of the one row of
\* its message id, and an UpdateFromMessageID that succeeds returns the
\* identifier that row had before and has after.
C19_IdentifierStable ==
    /\ [](\A k \in DOMAIN messages : k < keyGen /\ messages[k].id = k)
    /\ [][keyGen' >= keyGen]_vars
    /\ [][\A k \in (DOMAIN messages') \ (DOMAIN messages) :
             /\ k >= keyGen
             /\ nOps' = nOps + 1 /\ last'.op \in RecvOps
             /\ last'.ret = k]_vars
    /\ [][(nOps' = nOps + 1 /\ last'.op \in UpdateOps) =>
             /\ DOMAIN messages' = DOMAIN messages
             /\ \A k \in DOMAIN messages : messages'[k].id = messages[k].id]_vars
    /\ []((last.op \in RecvOps /\ last.err = NoErr) =>
             RowsOf(last.in.messageID) = {last.ret})
    /\ [][(nOps' = nOps + 1 /\ last'.op = "UpdateFromMessageID"
              /\ last'.err = NoErr) =>
             /\ RowsOf(last'.messageID) = {last'.ret}
             /\ \A k \in DOMAIN messages' :
                    messages'[k].message_id = EncodeBytes(last'.messageID)
                        => k = last'.ret]_vars

\* The only message was deleted, then a message was received: it got the
\* next identifier, not the one of the deleted row.
C19_ReceivedAfterDelete ==
    /\ prev.op = "DeleteMessage" /\ prev.err = NoErr
    /\ last.op \in RecvOps /\ last.err = NoErr
    /\ last.ret = 2
    /\ DOMAIN messages = {2}
    /\ keyGen = 3

\* C12: a DeleteMessage call returns without error exactly when a row
\* carries the message id and neither the lookup nor the delete failed; it
\* has then removed that row and no other and started the one goroutine of
\* the notification that carries the message id.  When it returns an error
\* the messages are as they were and no goroutine was started.  The
\* channels are never touched.
C12_DeleteMessage ==
    [][(nOps' = nOps + 1 /\ last'.op = "DeleteMessage") =>
          LET mid == last'.messageID
              hits == RowsOf(mid)
          IN  /\ (last'.err = NoErr) <=> (hits # {} /\ last'.fault = "none")
              /\ channels' = channels
              /\ IF last'.err = NoErr
                 THEN /\ DOMAIN messages' = (DOMAIN messages) \ hits
                      /\ \A k \in DOMAIN messages' : messages'[k] = messages[k]
                      /\ last'.emit = <<DeletedMessage(mid)>>
                      /\ spawned' = spawned \cup
                             {[by |-> nOps', op |-> "DeleteMessage",
                               note |-> DeletedMessage(mid)]}
                      /\ Cardinality(spawned') = Cardinality(spawned) + 1
                 ELSE /\ messages' = messages
                      /\ last'.emit = <<>>
                      /\ spawned' = spawned]_vars

\* A DeleteMessage call whose delete transaction failed left the row where
\* it was; the same call made again removed it.
C12_DeletedAfterFailure ==
    /\ prev.op = "DeleteMessage" /\ prev.fault = "second"
    /\ prev.err # NoErr /\ prev.emit = <<>>
    /\ last.op = "DeleteMessage" /\ last.fault = "none"
    /\ last.messageID = prev.messageID
    /\ last.err = NoErr /\ last.emit = <<DeletedMessage(last.messageID)>>
    /\ RowsOf(last.messageID) = {}

----------------------------------------------------------------------------
(* The concurrent specification: two calls run at the same time, each a    *)
(* goroutine that yields while a store transaction is awaited.  A step is  *)
(* one store transaction together with the code that follows it up to the  *)
(* next transaction.                                                       *)

\* A task is between the start of its call and its return.
Running(t) == task[t].pc \notin {"idle", "done"}

\* The call of task t starts while another call is running.
Overlaps(t) == \E u \in TaskIDs \ {t} : Running(u)

\* sync.Mutex.Lock returns when no goroutine holds the mutex.
CanLockAlways(mux) == TRUE
CanLock(mux) == mux = 0

\* The locals of a call that starts: in are the arguments of a receive
\* variant and msg the Message to store, key and patch the arguments of an
\* update.
Begin(t, op, in, msg, key, patch, pc) ==
    /\ task' = [task EXCEPT ![t] =
                   [pc |-> pc, op |-> op, in |-> in, msg |-> msg, key |-> key,
                    patch |-> patch, currentMsg |-> Nil,
                    overlapped |-> Overlaps(t), ret |-> 0, err |-> NoErr,
                    stored |-> FALSE, emit |-> <<>>]]
    /\ UNCHANGED <<storeVars, last, prev, nOps, spawned, busVars, updateMux, waitVars, returned>>

BeginReceiveMessage(t, channelID, messageID, nickname, text, pubKey, dmToken, codeset, timestamp, lease, round, mType, status, hidden) ==
    /\ task[t].pc = "idle"
    /\ Begin(t, "ReceiveMessage",
             RecvIn(channelID, messageID, ZeroMsgID, nickname, text, pubKey,
                    dmToken, codeset, timestamp, lease, round, mType, status,
                    hidden),
             buildMessage(channelID, messageID, Nil, nickname, textBytes(text),
                          pubKey, dmToken, codeset, timestamp, lease, round,
                          mType, FALSE, hidden, status),
             0, Nil, "put")

BeginReceiveReply(t, channelID, messageID, replyTo, nickname, text, pubKey, dmToken, codeset, timestamp, lease, round, mType, status, hidden) ==
    /\ task[t].pc = "idle"
    /\ Begin(t, "ReceiveReply",
             RecvIn(channelID, messageID, replyTo, nickname, text, pubKey,
                    dmToken, codeset, timestamp, lease, round, mType, status,
                    hidden),
             buildMessage(channelID, messageID, replyTo, nickname,
                          textBytes(text), pubKey, dmToken, codeset, timestamp,
                          lease, round, mType, hidden, FALSE, status),
             0, Nil, "put")

BeginUpdateFromUUID(t, uuid, messageID, timestamp, round, pinned, hidden, status) ==
    /\ task[t].pc = "idle"
    /\ Begin(t, "UpdateFromUUID", Nil, Nil, uuid,
             [messageID |-> messageID, timestamp |-> timestamp, round |-> round,
              pinned |-> pinned, hidden |-> hidden, status |-> status],
             "lock")

BeginUpdateFromMessageID(t, messageID, timestamp, round, pinned, hidden, status) ==
    /\ task[t].pc = "idle"
    /\ Begin(t, "UpdateFromMessageID", Nil, Nil, messageID,
             [messageID |-> Ptr(messageID), timestamp |-> timestamp,
              round |-> round, pinned |-> pinned, hidden |-> hidden,
              status |-> status],
             "lock")

\* The call of task t returns: a receive variant starts the goroutine of
\* its notification whatever receiveHelper returned, an update only after
\* a store without error, and the deferred Unlock of an update runs.
Return(t, uuid, err, stored) ==
    LET isUpdate == task[t].op \in UpdateOps
        emit == IF ~isUpdate
                THEN <<MessageReceived(uuid, task[t].in.channelID, FALSE)>>
                ELSE IF err # NoErr THEN <<>>
                ELSE <<MessageReceived(uuid, task[t].msg.ChannelID, TRUE)>>
    IN  /\ task' = [task EXCEPT ![t].pc = "done",
                                ![t].ret = IF isUpdate /\ err # NoErr
                                           THEN 0 ELSE uuid,
                                ![t].err = err,
                                ![t].stored = stored,
                                ![t].emit = emit]
        /\ spawned' = spawned \cup goroutines(t, task[t].op, emit)
        /\ updateMux' = IF isUpdate THEN 0 ELSE updateMux

\* w.updateMux.Lock() of an update call.
Lock(t) ==
    /\ task[t].pc = "lock"
    /\ CanLock(updateMux)
    /\ updateMux' = t
    /\ task' = [task EXCEPT ![t].pc = "get"]
    /\ UNCHANGED <<storeVars, last, prev, nOps, spawned, busVars, waitVars, returned>>

\* The read of an update call; the patch is applied to what was read.
Read(t, got) ==
    /\ IF got.err # NoErr
       THEN Return(t, 0, got.err, FALSE)
       ELSE /\ task' = [task EXCEPT
                           ![t].pc = "put",
                           ![t].currentMsg = got.value,
                           ![t].msg = applyPatch(MsgFromJS(got.value),
                               task[t].patch.messageID,
                               task[t].patch.timestamp, task[t].patch.round,
                               task[t].patch.pinned, task[t].patch.hidden,
                               task[t].patch.status)]
            /\ UNCHANGED <<spawned, updateMux>>
    /\ UNCHANGED <<storeVars, last, prev, nOps, busVars, waitVars, returned>>

UpdateFromUUIDGet(t) ==
    /\ task[t].pc = "get" /\ task[t].op = "UpdateFromUUID"
    /\ Read(t, Get(messages, task[t].key, FALSE))

UpdateFromMessageIDGet(t) ==
    /\ task[t].pc = "get" /\ task[t].op = "UpdateFromMessageID"
    /\ Read(t, GetIndex(messages, "message_id", EncodeBytes(task[t].key),
                        FALSE))

\* receiveHelper up to the return of Put.
receiveHelperPut(t) ==
    /\ task[t].pc = "put"
    /\ LET put == Put(messages, keyGen, MessagesSchema,
                      messageObj(task[t].msg, task[t].op \in UpdateOps),
                      FALSE)
       IN  /\ messages' = put.rows
           /\ keyGen' = put.gen
           /\ IF putErrorReturned(put.err)
              THEN Return(t, 0, put.err, FALSE)
              ELSE IF put.result.undefined
              THEN /\ task' = [task EXCEPT ![t].pc = "lookup"]
                   /\ UNCHANGED <<spawned, updateMux>>
              ELSE Return(t, put.result.int, NoErr, TRUE)
    /\ UNCHANGED <<cipher, channels, last, prev, nOps, busVars, waitVars, returned>>

\* receiveHelper from the lookup that follows an undefined Put result.
receiveHelperLookup(t) ==
    /\ task[t].pc = "lookup"
    /\ LET o == lookupOutcome(msgIDLookup(messages, task[t].msg.MessageID,
                                          FALSE))
       IN  Return(t, o.uuid, o.err, FALSE)
    /\ UNCHANGED <<storeVars, last, prev, nOps, busVars, waitVars, returned>>

\* LeaveChannel as a task: the call starts.
BeginLeaveChannel(t, channelID) ==
    /\ task[t].pc = "idle"
    /\ Begin(t, "LeaveChannel", Nil, Nil, channelID, Nil, "delete")

\* impl.Delete of the Channel row, a transaction of its own on the channels
\* store.
LeaveChannelDelete(t) ==
    /\ task[t].pc = "delete"
    /\ LET del == Delete(channels, IDString(task[t].key), FALSE)
       IN  /\ channels' = del.rows
           /\ task' = [task EXCEPT ![t].pc = "cascade"]
    /\ UNCHANGED <<cipher, messages, keyGen, last, prev, nOps, spawned, busVars, updateMux, waitVars, returned>>

\* w.deleteMsgByChannel, a transaction of its own on the messages store,
\* and the return of LeaveChannel.
LeaveChannelCascade(t) ==
    /\ task[t].pc = "cascade"
    /\ LET casc == deleteMsgByChannel(messages, task[t].key, FALSE)
       IN  /\ messages' = casc.rows
           /\ task' = [task EXCEPT ![t].pc = "done", ![t].err = casc.err]
    /\ UNCHANGED <<cipher, channels, keyGen, last, prev, nOps, spawned, busVars, updateMux, waitVars, returned>>

\* DeleteMessage as a task: the call starts.  It takes no lock.
BeginDeleteMessage(t, messageID) ==
    /\ task[t].pc = "idle"
    /\ Begin(t, "DeleteMessage", Nil, Nil, messageID, Nil, "find")

\* The GetIndex of impl.DeleteIndex, a transaction of its own: the row
\* that holds the message identifier, or the error DeleteMessage returns.
DeleteIndexGetIndex(t) ==
    /\ task[t].pc = "find"
    /\ LET got == GetIndex(messages, "message_id", EncodeBytes(task[t].key),
                           FALSE)
       IN  IF got.err # NoErr
           THEN task' = [task EXCEPT ![t].pc = "done", ![t].err = got.err]
           ELSE task' = [task EXCEPT ![t].pc = "remove",
                                     ![t].currentMsg = got.value]
    /\ UNCHANGED <<storeVars, last, prev, nOps, spawned, busVars, updateMux, waitVars, returned>>

\* The Delete of impl.DeleteIndex, a transaction of its own, by the primary
\* key of the row that was found; then DeleteMessage starts the goroutine
\* of its notification and returns.
DeleteIndexDelete(t) ==
    /\ task[t].pc = "remove"
    /\ LET del == Delete(messages, task[t].currentMsg.id, FALSE)
           emit == <<DeletedMessage(task[t].key)>>
       IN  /\ messages' = del.rows
           /\ task' = [task EXCEPT ![t].pc = "done", ![t].err = del.err,
                                   ![t].emit = emit]
           /\ spawned' = spawned \cup goroutines(t, "DeleteMessage", emit)
    /\ UNCHANGED <<cipher, channels, keyGen, last, prev, nOps, busVars, updateMux, waitVars, returned>>

\* The calls the two tasks make.
BeginReceive(t) ==
    \/ \E i \in {<<"c1", "m1", 2>>, <<"c1", "m2", 1>>} :
           BeginReceiveMessage(t, i[1], i[2], 10 + i[3], 20 + i[3],
               30 + i[3], 40 + i[3], i[3], 50 + i[3], 30 * (i[3] - 1),
               60 + i[3], i[3], i[3] - 1, i[3] = 2)
    \/ \E i \in {<<"c1", "m2", 2>>, <<"c2", "m1", 1>>} :
           BeginReceiveReply(t, i[1], i[2], ReplyTo, 10 + i[3], 20 + i[3],
               30 + i[3], 40 + i[3], i[3], 50 + i[3], 30 * (i[3] - 1),
               60 + i[3], i[3], i[3] - 1, i[3] = 2)

BeginUpdate(t) ==
    \/ \E u \in {1, 2}, pt \in PatchesUUID :
           BeginUpdateFromUUID(t, u, pt[1], pt[2], pt[3], pt[4], pt[5], pt[6])
    \/ \E m \in MsgIDs, pt \in PatchesMessageID :
           BeginUpdateFromMessageID(t, m, pt[2], pt[3], pt[4], pt[5], pt[6])

NextConc ==
    \E t \in TaskIDs :
        \/ BeginReceive(t)
        \/ BeginUpdate(t)
        \/ \E c \in ChanIDs : BeginLeaveChannel(t, c)
        \/ LeaveChannelDelete(t)
        \/ LeaveChannelCascade(t)
        \/ \E m \in {"m1"} : BeginDeleteMessage(t, m)
        \/ DeleteIndexGetIndex(t)
        \/ DeleteIndexDelete(t)
        \/ Lock(t)
        \/ UpdateFromUUIDGet(t)
        \/ UpdateFromMessageIDGet(t)
        \/ receiveHelperPut(t)
        \/ receiveHelperLookup(t)

SpecConc == Init /\ [][NextConc]_vars

----------------------------------------------------------------------------
(* Properties of the concurrent specification.                             *)

\* Task t is between the return of Lock and its deferred Unlock.
InUpdate(t) ==
    task[t].pc \in {"get", "put", "lookup"} /\ task[t].op \in UpdateOps

\* Task t has returned from an update call that stored its row again.
UpdateStored(t) ==
    task[t].pc = "done" /\ task[t].op \in UpdateOps /\ task[t].stored

\* The value the patch gives to field f of a stored row.
PatchValue(patch, f) ==
    CASE f = "message_id" -> EncodeBytes(Deref(patch.messageID))
      [] f = "timestamp" -> Deref(patch.timestamp)
      [] f = "round" -> Deref(patch.round)
      [] f = "pinned" -> Deref(patch.pinned)
      [] f = "hidden" -> Deref(patch.hidden)
      [] f = "status" -> Deref(patch.status)

\* C8: no two update calls are between Lock and Unlock at the same time,
\* whichever of the two entry points each came through; and when two update
\* calls have both stored the same row, every field that the patch of one
\* names and the patch of the other does not has in the row the value the
\* first gave it, so the row carries both patches.
C8_NoLostUpdate ==
    /\ \A t \in TaskIDs, u \in TaskIDs :
           (InUpdate(t) /\ InUpdate(u)) => t = u
    /\ \A t \in TaskIDs : \A u \in TaskIDs \ {t} :
           (/\ UpdateStored(t) /\ UpdateStored(u)
            /\ task[t].currentMsg.id = task[u].currentMsg.id)
           => /\ task[t].currentMsg.id \in DOMAIN messages
              /\ \A f \in PatchFields(task[t].patch) \
                              PatchFields(task[u].patch) :
                     messages[task[t].currentMsg.id][f] =
                         PatchValue(task[t].patch, f)

\* An update by UUID that pins and an update by message id that sets the
\* status were called on the same row, the second while the first was
\* running; both have returned and the row is pinned and has the status.
C8_BothPatchesLanded ==
    \E t \in TaskIDs : \E u \in TaskIDs \ {t} :
        /\ UpdateStored(t) /\ UpdateStored(u)
        /\ task[t].op = "UpdateFromUUID" /\ task[u].op = "UpdateFromMessageID"
        /\ task[t].overlapped \/ task[u].overlapped
        /\ task[t].currentMsg.id = task[u].currentMsg.id
        /\ PatchFields(task[t].patch) = {"pinned"}
        /\ PatchFields(task[u].patch) = {"message_id", "status"}
        /\ messages[task[t].currentMsg.id].pinned = TRUE
        /\ messages[task[t].currentMsg.id].status = 2

\* Task t has returned from a receive variant called with message id mid.
ReceiveDone(t, mid) ==
    /\ task[t].pc = "done" /\ task[t].op \in RecvOps
    /\ task[t].in.messageID = mid

\* C9: when two receive calls with the same message id have both returned,
\* however their store transactions were interleaved, one row carries the
\* message id, at most one of the calls stored it, and both calls returned
\* without error its primary key, which is not zero.
C9_ConcurrentReceiveDeduplicated ==
    \A mid \in MsgIDs, t \in TaskIDs : \A u \in TaskIDs \ {t} :
        (ReceiveDone(t, mid) /\ ReceiveDone(u, mid)) =>
            /\ task[t].ret # 0
            /\ task[t].ret = task[u].ret
            /\ task[t].err = NoErr /\ task[u].err = NoErr
            /\ RowsOf(mid) = {task[t].ret}
            /\ ~(task[t].stored /\ task[u].stored)

\* Two receive calls with the same message id and different content were
\* made on the empty store, the second before the first had returned: one
\* stored the row, the other looked it up, both returned its key.
C9_OverlappingReceives ==
    \E t \in TaskIDs : \E u \in TaskIDs \ {t} :
        /\ ReceiveDone(t, "m1") /\ ReceiveDone(u, "m1")
        /\ task[u].overlapped
        /\ task[t].in # task[u].in
        /\ task[t].stored /\ ~task[u].stored
        /\ task[t].ret = task[u].ret /\ task[t].ret # 0
        /\ keyGen = 2
        /\ DOMAIN messages = {task[t].ret}

----------------------------------------------------------------------------
(* The notifications: the goroutine a call started runs the callback of    *)
(* the manager, which posts a message to the main thread; the main thread  *)
(* hands the message to the handler registered for its tag, which invokes  *)
(* the callback the application registered.                                *)

\* ThreadManager.SendMessage: the message is posted after those posted
\* before it.  by, op and note tell the call it comes from and what that
\* call handed to the callback.
SendMessage(queue, tag, data, g) ==
    Append(queue, [tag |-> tag, data |-> data, by |-> g.by, op |-> g.op,
                   note |-> g.note])

\* The goroutine g runs to its end on the worker.
Ran(g, tag, data) ==
    /\ g \in spawned
    /\ spawned' = spawned \ {g}
    /\ toMain' = SendMessage(toMain, tag, data, g)
    /\ UNCHANGED <<storeVars, last, prev, nOps, toWorker, delivered, taskVars, waitVars, returned>>

messageReceivedCallback(g) ==
    /\ g.note.tag = "MessageReceivedCallback"
    /\ Ran(g, "MessageReceivedCallback",
           Marshal([uuid |-> g.note.uuid,
                    channelID |-> EncodeBytes(g.note.channelID),
                    update |-> g.note.update]))

deletedMessageCallback(g) ==
    /\ g.note.tag = "DeletedMessageCallback"
    /\ Ran(g, "DeletedMessageCallback", MarshalID(g.note.messageID))

mutedUserCallback(g) ==
    /\ g.note.tag = "MutedUserCallback"
    /\ Ran(g, "MutedUserCallback",
           Marshal([channelID |-> EncodeBytes(g.note.channelID),
                    pubKey |-> EncodeBytes(g.note.pubKey),
                    unmute |-> g.note.unmute]))

\* The invocations of the registered callback that the handler of each
\* notification tag makes for a payload.
messageReceivedCallbackHandlerTwice(data) ==
    LET msg == Unmarshal(data)
        call == [cb |-> "messageReceivedCB", uuid |-> msg.v.uuid,
                 channelID |-> msg.v.channelID.b64, update |-> msg.v.update]
    IN  IF msg.err # NoErr THEN <<>> ELSE <<call, call>>
messageReceivedCallbackHandler(data) ==
    LET msg == Unmarshal(data)
    IN  IF msg.err # NoErr THEN <<>>
        ELSE <<[cb |-> "messageReceivedCB", uuid |-> msg.v.uuid,
                channelID |-> msg.v.channelID.b64,
                update |-> msg.v.update]>>

deletedMessageCallbackHandler(data) ==
    <<[cb |-> "deletedMessageCB", messageID |-> UnmarshalID(data).id]>>

mutedUserCallbackHandlerMuting(data) ==
    LET msg == Unmarshal(data)
    IN  IF msg.err # NoErr THEN <<>>
        ELSE <<[cb |-> "mutedUserCB", channelID |-> msg.v.channelID.b64,
                pubKey |-> msg.v.pubKey.b64, unmute |-> FALSE]>>
mutedUserCallbackHandler(data) ==
    LET msg == Unmarshal(data)
    IN  IF msg.err # NoErr THEN <<>>
        ELSE <<[cb |-> "mutedUserCB", channelID |-> msg.v.channelID.b64,
                pubKey |-> msg.v.pubKey.b64, unmute |-> msg.v.unmute]>>

\* The main thread takes the oldest message posted to it and the handler
\* registered for its tag has made the calls.
Handled(tag, calls) ==
    /\ toMain # <<>>
    /\ Head(toMain).tag = tag
    /\ toMain' = Tail(toMain)
    /\ delivered' = delivered \o
           [i \in DOMAIN calls |->
               [by |-> Head(toMain).by, op |-> Head(toMain).op,
                note |-> Head(toMain).note, call |-> calls[i]]]
    /\ UNCHANGED <<storeVars, last, prev, nOps, spawned, toWorker, taskVars, waitVars, returned>>

MessageReceivedOnMain ==
    /\ toMain # <<>>
    /\ Handled("MessageReceivedCallback",
               messageReceivedCallbackHandler(Head(toMain).data))

DeletedMessageOnMain ==
    /\ toMain # <<>>
    /\ Handled("DeletedMessageCallback",
               deletedMessageCallbackHandler(Head(toMain).data))

MutedUserOnMain ==
    /\ toMain # <<>>
    /\ Handled("MutedUserCallback",
               mutedUserCallbackHandler(Head(toMain).data))

\* The calls whose notifications are followed: those that notify, with and
\* without an injected failure, and one that never does.
NotifyCalls ==
    \/ \E f \in {"none", "first", "encrypt"} :
           ReceiveMessageOf("c1", "m1", 2, f)
    \/ \E c \in {"c1"} : ReceiveReplyOf(c, "m2", 2, "none")
    \/ \E c \in {"c2"} : ReceiveReactionOf(c, "m1", 1, "none")
    \/ \E pt \in {PatchPinned}, f \in {"none", "second"} :
           UpdateFromUUID(1, pt[1], pt[2], pt[3], pt[4], pt[5], pt[6], f)
    \/ \E pt \in {PatchStatus} :
           UpdateFromMessageID("m1", pt[2], pt[3], pt[4], pt[5], pt[6],
                               "none")
    \/ \E m \in {"m1"}, f \in {"none", "second"} : DeleteMessage(m, f)
    \/ \E k \in PubKeys : MuteUser("c1", k, TRUE)
    \/ \E m \in {"m1"} : GetMessage(m, "none")

\* A goroutine that was started runs.
MessageReceivedGoroutine == \E g \in spawned : messageReceivedCallback(g)
DeletedMessageGoroutine == \E g \in spawned : deletedMessageCallback(g)
MutedUserGoroutine == \E g \in spawned : mutedUserCallback(g)
RunGoroutine ==
    \/ MessageReceivedGoroutine
    \/ DeletedMessageGoroutine
    \/ MutedUserGoroutine

\* The main thread handles a message posted to it.
MainHandles ==
    \/ MessageReceivedOnMain
    \/ DeletedMessageOnMain
    \/ MutedUserOnMain

NextNotify == NotifyCalls \/ RunGoroutine \/ MainHandles

\* The scheduler runs every goroutine that is ready, and the event loop of
\* the main thread handles every message posted to it.
SpecNotify ==
    Init /\ [][NextNotify]_vars /\ WF_vars(RunGoroutine) /\ WF_vars(MainHandles)

----------------------------------------------------------------------------
(* Properties of the notifications.                                        *)

\* The call recorded in r is one that notifies and it succeeded.
Triggering(r) ==
    /\ r.op \in RecvOps \cup UpdateOps \cup {"DeleteMessage", "MuteUser"}
    /\ r.err = NoErr

\* The invocation of the registered callback that hands over what the call
\* handed to the callback of the store.
CallOf(note) ==
    CASE note.tag = "MessageReceivedCallback" ->
             [cb |-> "messageReceivedCB", uuid |-> note.uuid,
              channelID |-> note.channelID, update |-> note.update]
      [] note.tag = "DeletedMessageCallback" ->
             [cb |-> "deletedMessageCB", messageID |-> note.messageID]
      [] note.tag = "MutedUserCallback" ->
             [cb |-> "mutedUserCB", channelID |-> note.channelID,
              pubKey |-> note.pubKey, unmute |-> note.unmute]

\* The callback each kind of call notifies.
NotificationOf(op) ==
    IF op = "DeleteMessage" THEN "deletedMessageCB"
    ELSE IF op = "MuteUser" THEN "mutedUserCB"
    ELSE "messageReceivedCB"

\* The invocations of the registered callbacks made for call number n.
DeliveriesOf(n) == {i \in DOMAIN delivered : delivered[i].by = n}

\* C10: a registered callback is never invoked more than once for one call,
\* and an invocation is of the callback that belongs to the kind of the
\* call, with the values the call handed over; and every call that notifies
\* and succeeded is followed by the one invocation made for it.
C10_ExactlyOneDelivery ==
    /\ [](\A n \in 1..MaxOps :
             /\ Cardinality(DeliveriesOf(n)) <= 1
             /\ \A i \in DeliveriesOf(n) :
                    /\ delivered[i].call.cb = NotificationOf(delivered[i].op)
                    /\ delivered[i].call = CallOf(delivered[i].note))
    /\ \A n \in 1..MaxOps :
           (nOps = n /\ Triggering(last)) ~>
               (Cardinality(DeliveriesOf(n)) = 1)

\* A receive call that stored a row and the successful DeleteMessage call
\* after it have each been followed by their one invocation, and nothing is
\* left on the way.
C10_BothDelivered ==
    /\ prev.op \in RecvOps /\ Triggering(prev) /\ prev.ret # 0
    /\ last.op = "DeleteMessage" /\ Triggering(last)
    /\ spawned = {} /\ toMain = <<>>
    /\ Len(delivered) = 2
    /\ \E i \in DeliveriesOf(1) : delivered[i].call.cb = "messageReceivedCB"
    /\ \E i \in DeliveriesOf(2) : delivered[i].call.cb = "deletedMessageCB"

\* C11: of two invocations of the same registered callback, the one made
\* for the earlier call comes first: calls are made one after the other, so
\* the earlier call had returned before the later one was started.
C11_FifoPerTag ==
    \A i \in DOMAIN delivered, j \in DOMAIN delivered :
        (i < j /\ delivered[i].call.cb = delivered[j].call.cb)
            => delivered[i].by <= delivered[j].by

\* C13: a MuteUser call leaves the channels, the messages and the key
\* generator as they were and starts one goroutine, that of the
\* notification with its three arguments; the registered callback is
\* invoked at most once for the call, with the channel, the public key and
\* the flag the call was given.
C13_MuteUserFrame ==
    /\ [][(nOps' = nOps + 1 /\ last'.op = "MuteUser") =>
             /\ channels' = channels
             /\ messages' = messages
             /\ keyGen' = keyGen
             /\ last'.err = NoErr
             /\ spawned' = spawned \cup
                    {[by |-> nOps', op |-> "MuteUser",
                      note |-> MutedUser(last'.channelID, last'.pubKey,
                                         last'.unmute)]}
             /\ Cardinality(spawned') = Cardinality(spawned) + 1]_vars
    /\ [](\A i \in DOMAIN delivered :
             delivered[i].op = "MuteUser" =>
                 /\ delivered[i].call =
                        [cb |-> "mutedUserCB",
                         channelID |-> delivered[i].note.channelID,
                         pubKey |-> delivered[i].note.pubKey,
                         unmute |-> delivered[i].note.unmute]
                 /\ \A j \in DOMAIN delivered :
                        delivered[j].by = delivered[i].by => j = i)

\* A user was unmuted in a store that holds a channel and a message: the
\* store is as it was and the callback has been invoked with the arguments.
C13_UnmuteDelivered ==
    /\ last.op = "MuteUser" /\ last.unmute
    /\ DOMAIN messages # {} /\ DOMAIN channels # {}
    /\ spawned = {} /\ toMain = <<>>
    /\ \E i \in DOMAIN delivered :
           /\ delivered[i].by = nOps
           /\ delivered[i].call =
                  [cb |-> "mutedUserCB", channelID |-> last.channelID,
                   pubKey |-> last.pubKey, unmute |-> TRUE]

\* The payloads that can reach the handler the main thread has registered
\* for a notification tag: what the worker posts for the tag, and bytes
\* that do not decode (cut-off JSON, an identifier of the wrong length, the
\* payload of another tag).
MaxPosted == 2
CutJSON == TextData("{")
CutID == [raw |-> "m"]
PayloadsOf(tag) ==
    CASE tag = "MessageReceivedCallback" ->
             {Marshal([uuid |-> 1, channelID |-> EncodeBytes("c1"),
                       update |-> u]) : u \in BOOLEAN}
                 \cup {CutJSON, CutID, MarshalID("m1")}
      [] tag = "DeletedMessageCallback" ->
             {MarshalID("m1"), CutJSON, CutID,
              Marshal([channelID |-> EncodeBytes("c1"),
                       pubKey |-> EncodeBytes(31), unmute |-> TRUE])}
      [] tag = "MutedUserCallback" ->
             {Marshal([channelID |-> EncodeBytes("c1"),
                       pubKey |-> EncodeBytes(31), unmute |-> u]) :
                  u \in BOOLEAN}
                 \cup {CutJSON, CutID, MarshalID("m1")}
NotificationTags ==
    {"MessageReceivedCallback", "DeletedMessageCallback", "MutedUserCallback"}

\* A message with a notification tag and some payload arrives at the main
\* thread.
Arrived(tag, data) ==
    /\ Len(toMain) + Len(delivered) < MaxPosted
    /\ toMain' = Append(toMain, [tag |-> tag, data |-> data, by |-> 0,
                                 op |-> "none", note |-> [tag |-> tag]])
    /\ UNCHANGED <<storeVars, last, prev, nOps, spawned, toWorker, delivered, taskVars, waitVars, returned>>

NextHandlers ==
    \/ \E tag \in NotificationTags : \E data \in PayloadsOf(tag) :
           Arrived(tag, data)
    \/ MainHandles

\* The handlers of the main thread, handed every payload.
SpecHandlers == Init /\ [][NextHandlers]_vars

\* The handler of the tag of message msg fails to decode its payload.
DecodeFails(msg) ==
    IF msg.tag = "DeletedMessageCallback"
    THEN UnmarshalID(msg.data).err # NoErr
    ELSE Unmarshal(msg.data).err # NoErr

\* C27: when the handler the main thread has registered for
\* message-received, message-deleted or mute-changed fails to decode the
\* payload of a message, the message is dropped: the callback of the user
\* is not invoked.
C27_MalformedPayloadDropped ==
    [][(/\ toMain # <<>>
        /\ toMain' = Tail(toMain)
        /\ DecodeFails(Head(toMain))) => delivered' = delivered]_vars

\* The caller goes on making its calls.  Nothing obliges a goroutine of a
\* notification to run or the main thread to handle a message: a callback
\* that does not return keeps both from going on.
SpecCallers == Init /\ [][NextNotify]_vars /\ WF_vars(NotifyCalls)

\* C22: whatever goroutines of earlier notifications have not run and
\* whatever messages the main thread has not handled, the call a caller
\* makes returns and the next can be made; the step of a call posts nothing
\* to the main thread, invokes no callback and ends no goroutine.
C22_CallsNeverWait ==
    /\ \A n \in 0..(MaxOps - 1) : (nOps = n) ~> (nOps = n + 1)
    /\ [][nOps' = nOps + 1 =>
             /\ toMain' = toMain
             /\ delivered' = delivered
             /\ spawned \subseteq spawned']_vars

\* Two calls that notify have returned one after the other; no goroutine
\* of either has run and no callback has been invoked.
C22_ReturnedBeforeAnyDelivery ==
    /\ nOps = 2
    /\ prev.op \in RecvOps /\ prev.err = NoErr
    /\ last.op \in {"DeleteMessage", "MuteUser"} /\ last.err = NoErr
    /\ \E g \in spawned : g.by = 1
    /\ \E g \in spawned : g.by = 2
    /\ toMain = <<>> /\ delivered = <<>>

\* C24: the reply that the get-message handler returns sets exactly one of
\* its two fields: when the lookup fails, Error holds the text of the error
\* and Message is unset; when it succeeds, Message holds the record of the
\* stored message and Error is empty.
C24_GetMessageReplyOneField ==
    last.op = "GetMessage" =>
        /\ returned.err = NoErr
        /\ Unmarshal(returned.data).err = NoErr
        /\ LET reply == Unmarshal(returned.data).v
               found == \E k \in DOMAIN messages :
                            messages[k].message_id = EncodeBytes(last.messageID)
           IN  /\ (reply.Error # "") # (reply.Message # <<>>)
               /\ last.err # NoErr =>
                      /\ reply.Error = last.err
                      /\ reply.Message = <<>>
               /\ last.err = NoErr =>
                      /\ found
                      /\ reply.Error = ""
                      /\ reply.Message = <<last.out>>
                      /\ last.out.MessageID = last.messageID
               /\ (~found /\ last.fault = "none") => reply.Error # ""
               /\ (found /\ last.fault = "none") => reply.Message # <<>>

\* A lookup of a message that is not stored has been answered with the
\* error, and then a lookup of a stored message with the message.
C24_FailedThenFound ==
    /\ nOps = 2
    /\ prev.op = "GetMessage"
    /\ prev.err # NoErr
    /\ last.op = "GetMessage"
    /\ last.err = NoErr
    /\ Unmarshal(returned.data).v.Message = <<last.out>>

\* C25: the delete-message handler always returns nil, no payload, whether
\* the deletion succeeds or fails.
C25_DeleteMessageReturnsNil ==
    last.op = "DeleteMessage" =>
        /\ returned.data = NilData
        /\ returned.err = NoErr

\* C26: the update-by-content-id handler always returns nil, for every
\* request.
C26_UpdateFromMessageIDReturnsNil ==
    last.op = "UpdateFromMessageID" =>
        /\ returned.data = NilData
        /\ returned.err = NoErr

\* C28: when the cipher fails to encrypt in ReceiveMessage, ReceiveReply or
\* ReceiveReaction, the caller gets the failure result, the zero UUID,
\* which no receive that succeeded returns and no stored row has; the call
\* writes nothing to the store and starts no message-received
\* notification.
C28_EncryptFailureSurfaced ==
    /\ [](\A k \in DOMAIN messages : k # 0)
    /\ []((last.op \in RecvOps /\ last.err = NoErr) => last.ret >= 1)
    /\ []((last.op \in RecvOps /\ last.fault = "encrypt") =>
              /\ last.ret = 0
              /\ last.err = ErrEncrypt
              /\ returned = [data |-> Marshal(0), err |-> NoErr]
              /\ last.emit = <<>>)
    /\ [][(/\ nOps' = nOps + 1
            /\ last'.op \in RecvOps
            /\ last'.fault = "encrypt")
               => /\ messages' = messages
                  /\ channels' = channels
                  /\ keyGen' = keyGen
                  /\ spawned' = spawned]_vars

\* A receive has stored a message and then, with a cipher, a receive of
\* another message has failed to encrypt.
C28_EncryptFailedAfterReceive ==
    /\ cipher
    /\ nOps = 2
    /\ prev.op \in RecvOps
    /\ prev.err = NoErr
    /\ prev.stored
    /\ last.op \in RecvOps
    /\ last.fault = "encrypt"
    /\ last.in.messageID # prev.in.messageID
    /\ Cardinality(DOMAIN messages) = 1
    /\ Cardinality(spawned) = 1

\* C29: an update of a row that does not exist, UpdateFromUUID with an
\* unknown UUID or UpdateFromMessageID with an unknown message identifier,
\* is told to the caller as a failure: the handler of the update returns
\* an error or a payload, never the nil it returns when there is nothing
\* to tell; the update writes nothing to the store and starts no
\* message-received notification.
C29_UnknownRowSurfaced ==
    /\ []((/\ last.op \in UpdateOps
            /\ last.fault = "none"
            /\ last.err = ErrDoesNotExist)
               => /\ returned # [data |-> NilData, err |-> NoErr]
                  /\ last.emit = <<>>)
    /\ [][(/\ nOps' = nOps + 1
            /\ last'.op \in UpdateOps
            /\ last'.fault = "none"
            /\ last'.err = ErrDoesNotExist)
               => /\ messages' = messages
                  /\ channels' = channels
                  /\ keyGen' = keyGen
                  /\ spawned' = spawned]_vars

\* C30: when the Put of a receive fails with an error that is not the
\* unique constraint error, the receive fails with that error: it returns
\* the zero UUID, which is the key of no row, even when a row with the
\* identifier of the message is stored, which the lookup made for a
\* duplicate would have found; and the store is as it was.
C30_WriteErrorSurfaced ==
    [][(/\ nOps' = nOps + 1
        /\ last'.op \in RecvOps
        /\ last'.fault = "first")
           => /\ last'.err = ErrTxn
              /\ last'.err # ErrUniqueConstraint
              /\ last'.ret = 0
              /\ ~last'.stored
              /\ returned' = [data |-> Marshal(0), err |-> NoErr]
              /\ \A k \in DOMAIN messages' : k # last'.ret
              /\ messages' = messages
              /\ channels' = channels
              /\ keyGen' = keyGen]_vars

\* The Put of a receive has failed while a row with the identifier of the
\* message was stored, left by an earlier receive of the same message.
C30_WriteFailedWithRowStored ==
    /\ nOps = 2
    /\ prev.op \in RecvOps
    /\ prev.stored
    /\ last.op \in RecvOps
    /\ last.fault = "first"
    /\ last.in.messageID = prev.in.messageID
    /\ last.ret = 0
    /\ \E k \in DOMAIN messages :
           /\ k = prev.ret
           /\ messages[k].message_id = EncodeBytes(last.in.messageID)

\* C40: the row that ReceiveMessage, ReceiveReply or ReceiveReaction stores
\* when called with hidden = h has hidden = h and pinned = false, whichever
\* of the three was called and whatever h is.
C40_ReceiveFlagsAlike ==
    (last.op \in RecvOps /\ last.stored) =>
        /\ last.ret \in DOMAIN messages
        /\ messages[last.ret].hidden = last.in.hidden
        /\ messages[last.ret].pinned = FALSE

\* C32: whenever a receive call inserts a Message row, the channels store
\* holds, at the time of the insert, the Channel row of the channel of the
\* message.
C32_ChannelStoredAtInsert ==
    [][(/\ nOps' = nOps + 1
        /\ last'.op \in RecvOps
        /\ last'.stored)
           => IDString(last'.in.channelID) \in DOMAIN channels]_vars

\* C34: no receive call and no update call hands to the message-received
\* callback a notification with the UUID 0, and a receive call whose write
\* failed hands it no notification at all.
C34_NoNotificationOfZero ==
    (last.op \in RecvOps \cup UpdateOps) =>
        /\ \A i \in DOMAIN last.emit : last.emit[i].uuid # 0
        /\ (last.op \in RecvOps /\ last.err # NoErr) => last.emit = <<>>

\* C36: an UpdateFromUUID call of UUID u changes no row but row u, and
\* every notification it hands to the message-received callback carries u,
\* also when the message identifier of its patch is the one a different
\* row holds.
C36_UpdateFromUUIDOwnRowOnly ==
    /\ [](last.op = "UpdateFromUUID" =>
              \A i \in DOMAIN last.emit : last.emit[i].uuid = last.uuid)
    /\ [][(nOps' = nOps + 1 /\ last'.op = "UpdateFromUUID") =>
              /\ DOMAIN messages' = DOMAIN messages
              /\ \A k \in DOMAIN messages :
                     k # last'.uuid => messages'[k] = messages[k]
              /\ channels' = channels]_vars

\* C39: a LeaveChannel call changes nothing outside its channel: every
\* Channel row of another channel and every Message row of another channel
\* is after the call as it was before it, and no row is added.
C39_LeaveChannelFrame ==
    [][(nOps' = nOps + 1 /\ last'.op = "LeaveChannel") =>
          /\ \A c \in DOMAIN channels :
                 c # IDString(last'.channelID) =>
                     (c \in DOMAIN channels' /\ channels'[c] = channels[c])
          /\ \A k \in DOMAIN messages :
                 messages[k].channel_id # EncodeBytes(last'.channelID) =>
                     (k \in DOMAIN messages' /\ messages'[k] = messages[k])
          /\ DOMAIN channels' \subseteq DOMAIN channels
          /\ DOMAIN messages' \subseteq DOMAIN messages
          /\ keyGen' = keyGen
          /\ cipher' = cipher]_vars

\* A channel that held a message has been left while a message of another
\* channel was stored: that message is still there.
C39_LeftBesideAnotherChannel ==
    /\ last.op = "LeaveChannel" /\ last.err = NoErr
    /\ last.had >= 1
    /\ prev.op \in RecvOps
    /\ prev.stored
    /\ prev.in.channelID # last.channelID
    /\ prev.ret \in DOMAIN messages
    /\ \A k \in DOMAIN messages :
           messages[k].channel_id # EncodeBytes(last.channelID)

\* An update of task u that patches no message identifier other than the
\* one of message mid.
UpdateKeeping(u, mid) ==
    /\ task[u].pc # "idle"
    /\ task[u].op \in UpdateOps
    /\ \/ IsNil(task[u].patch.messageID)
       \/ Deref(task[u].patch.messageID) = mid

\* C35: once a DeleteMessage call of message M has returned without error,
\* or a LeaveChannel call of the channel of M has returned, no row holds M
\* as long as no receive call is made, also when the other call is an
\* update that had read the row of M before the deletion and writes it
\* afterwards.
C35_DeletedStaysDeleted ==
    \A t \in TaskIDs : \A u \in TaskIDs \ {t} :
        /\ (/\ task[t].pc = "done"
            /\ task[t].op = "DeleteMessage"
            /\ task[t].err = NoErr
            /\ UpdateKeeping(u, task[t].key))
               => RowsOf(task[t].key) = {}
        /\ (/\ task[t].pc = "done"
            /\ task[t].op = "LeaveChannel"
            /\ task[t].err = NoErr
            /\ task[u].pc # "idle"
            /\ task[u].op \in UpdateOps)
               => \A k \in DOMAIN messages :
                      messages[k].channel_id # EncodeBytes(task[t].key)

\* C21: while a LeaveChannel call has deleted the Channel row and has not
\* returned, no Message row of that channel is stored at a moment when
\* another call is about to run a transaction on the store.
C21_LeaveChannelOneTransaction ==
    \A t \in TaskIDs :
        \A u \in TaskIDs \ {t} :
            (/\ task[t].pc = "cascade"
             /\ IDString(task[t].key) \notin DOMAIN channels
             /\ task[u].pc \in {"get", "put", "lookup", "delete", "cascade"})
                => \A k \in DOMAIN messages :
                       messages[k].channel_id # EncodeBytes(task[t].key)

----------------------------------------------------------------------------
(* The start-up of the event model: the main thread sends init-store and   *)
(* awaits the reply; the worker, while it builds the model, sends the      *)
(* database name and the encryption status to the main thread and awaits   *)
(* the reply to each.  Every wait ends with the reply or with the timer.   *)

ErrTimeout == "timed out"

\* The channel of the timer made by time.After(worker.ResponseTimeout)
\* is ready once the duration has passed since the select began.
timerFiredEarly(elapsed) == elapsed + 1 >= ResponseTimeout
timerFired(elapsed) == elapsed >= ResponseTimeout

\* The request of waiter w has been sent and its select has begun.
Awaiting(w) ==
    [wait EXCEPT ![w] = [state |-> "waiting", elapsed |-> 0, reply |-> Nil,
                         err |-> NoErr, late |-> wait[w].late]]

\* RegisterCallback: the handler registered for a tag takes the place of
\* the one registered before.
RegisterCallback(before, handler) == handler

\* The handler a call registers for its reply: a function made by that
\* call, which sends to the channel made by that call.
responseHandlerOfFirst(call) == 1
responseHandler(call) == call

\* A call of a request registers its handler before it sends.
Registering(w) ==
    /\ callNo' = [callNo EXCEPT ![w] = @ + 1]
    /\ handlerOf' = [handlerOf EXCEPT
                        ![w] = RegisterCallback(@, responseHandler(callNo[w] + 1))]
    /\ UNCHANGED tookReply

\* A reply is handed to the handler registered for its tag.
Dispatched(w) ==
    /\ tookReply' = [tookReply EXCEPT
                        ![w] = @ \cup {<<handlerOf[w], callNo[w]>>}]
    /\ UNCHANGED <<callNo, handlerOf>>

\* The select of waiter w takes the timer: the call fails.
TimedOut(w) ==
    /\ timerFired(wait[w].elapsed)
    /\ wait' = [wait EXCEPT ![w].state = "timedOut", ![w].err = ErrTimeout]
    /\ UNCHANGED <<regVars, dmVars, startVars, storeVars, last, prev, nOps, spawned, busVars, taskVars, answered, workerPc, returned>>

\* The error a reply that is the text of an error stands for.
ErrorOfNone(text) == NoErr
ErrorOf(text) == IF text = "" THEN NoErr ELSE text

\* The callback registered for the reply of waiter w gets the payload: the
\* select takes it, or, when the select is over, nobody takes it.
Replied(w, data, err) ==
    IF wait[w].state = "waiting" /\ handlerOf[w] = callNo[w]
    THEN [wait EXCEPT ![w].state = "replied", ![w].reply = data,
                      ![w].err = err]
    ELSE [wait EXCEPT ![w].late = TRUE]

\* The tags of the requests of the main thread, each with its handler, in
\* the order registerCallbacks registers them.
registerCallbacksWithoutMuteUser ==
    {"NewWASMEventModel", "JoinChannel", "LeaveChannel", "ReceiveMessage",
     "ReceiveReply", "ReceiveReaction", "UpdateFromUUID",
     "UpdateFromMessageID", "GetMessage", "DeleteMessage"}
registerCallbacks ==
    {"NewWASMEventModel", "JoinChannel", "LeaveChannel", "ReceiveMessage",
     "ReceiveReply", "ReceiveReaction", "UpdateFromUUID",
     "UpdateFromMessageID", "GetMessage", "DeleteMessage", "MuteUser"}

\* The worker's main function, statement by statement.  It makes the thread
\* manager, or leaves when that fails.
NewThreadManager(ok) ==
    /\ workerPc = "start"
    /\ workerPc' = IF ok THEN "manager" ELSE "exited"
    /\ UNCHANGED <<regVars, dmVars, startVars, storeVars, last, prev, nOps, spawned, busVars, taskVars, wait, answered, returned>>

\* m.registerCallbacks()
RunRegisterCallbacks ==
    /\ workerPc = "manager"
    /\ registered' = registered \cup registerCallbacks
    /\ workerPc' = "registered"
    /\ UNCHANGED <<regVars, dmVars, readySent, mainReady, storeVars, last, prev, nOps, spawned, busVars, taskVars, wait, answered, returned>>

\* The callback of the logger's message channel is registered.
RegisterMessageChannelCallback ==
    /\ workerPc = "registered"
    /\ workerPc' = "channel"
    /\ UNCHANGED <<regVars, dmVars, startVars, storeVars, last, prev, nOps, spawned, busVars, taskVars, wait, answered, returned>>

\* m.wtm.SignalReady(): the ready signal goes to the main thread.
SignalReady ==
    /\ workerPc = "channel"
    /\ readySent' = readySent + 1
    /\ toMain' = Append(toMain, [tag |-> "Ready", data |-> ""])
    /\ workerPc' = "signalled"
    /\ UNCHANGED <<regVars, dmVars, registered, mainReady, storeVars, last, prev, nOps, spawned, toWorker, delivered, taskVars, wait, answered, returned>>

\* onWasmInitialized is invoked and the main function blocks for good: from
\* now on the worker runs the handlers of the messages it receives.
onWasmInitialized ==
    /\ workerPc = "signalled"
    /\ workerPc' = "idle"
    /\ UNCHANGED <<regVars, dmVars, startVars, storeVars, last, prev, nOps, spawned, busVars, taskVars, wait, answered, returned>>

Run ==
    \/ \E ok \in BOOLEAN : NewThreadManager(ok)
    \/ RunRegisterCallbacks
    \/ RegisterMessageChannelCallback
    \/ SignalReady
    \/ onWasmInitialized

\* worker.NewManager on the main thread returns once the ready signal of
\* the worker has arrived.
NewManager ==
    /\ toMain # <<>>
    /\ Head(toMain).tag = "Ready"
    /\ toMain' = Tail(toMain)
    /\ mainReady' = TRUE
    /\ UNCHANGED <<regVars, dmVars, registered, readySent, storeVars, last, prev, nOps, spawned, toWorker, delivered, taskVars, wait, answered, workerPc, returned>>

\* NewWASMEventModel on the main thread, after NewManager, up to its select.
NewWASMEventModelSend ==
    /\ mainReady
    /\ wait["init"].state = "idle"
    /\ toWorker' = Append(toWorker,
           [tag |-> "NewWASMEventModel",
            data |-> Marshal([path |-> "db", encryptionJSON |-> cipher])])
    /\ wait' = Awaiting("init")
    /\ Registering("init")
    /\ UNCHANGED <<dmVars, startVars, storeVars, last, prev, nOps, spawned, toMain, delivered, taskVars, answered, workerPc, returned>>

\* The worker takes init-store: newWASMEventModelCB begins to build the
\* model.
newWASMEventModelCB ==
    /\ toWorker # <<>>
    /\ Head(toWorker).tag = "NewWASMEventModel"
    /\ "NewWASMEventModel" \in registered
    /\ workerPc = "idle"
    /\ toWorker' = Tail(toWorker)
    /\ workerPc' = "building"
    /\ UNCHANGED <<regVars, dmVars, startVars, storeVars, last, prev, nOps, spawned, toMain, delivered, taskVars, wait, answered, returned>>

\* The reply the thread manager posts for a handler that returned data and
\* an error: the error's text when there is an error.
handlerReply(data, err) == IF err # NoErr THEN err ELSE data

\* The worker takes init-store and newWASMEventModelCB fails before the
\* model is built: the payload does not unmarshal, or the cipher does not.
\* It returns no data and the error.
ErrUnmarshalCipher == "failed to JSON unmarshal Cipher from main thread"
ErrUnmarshalMessage == "failed to JSON unmarshal from main thread"
newWASMEventModelCBFails(failure) ==
    /\ toWorker # <<>>
    /\ Head(toWorker).tag = "NewWASMEventModel"
    /\ "NewWASMEventModel" \in registered
    /\ workerPc = "idle"
    /\ toWorker' = Tail(toWorker)
    /\ toMain' = Append(toMain,
           [tag |-> "NewWASMEventModel", data |-> handlerReply("", failure)])
    /\ answered' = answered \cup {"init"}
    /\ workerPc' = "failed"
    /\ UNCHANGED <<regVars, dmVars, startVars, storeVars, last, prev, nOps, spawned, delivered, taskVars, wait, returned>>

\* The worker, building the model, may make a request, the first time or
\* again: its earlier call has returned, and the other request is not
\* awaited and has not failed.
MayRequest(w) ==
    /\ workerPc = "building"
    /\ wait[w].state # "waiting"
    /\ callNo[w] + 1 \in CallNos
    /\ \A v \in {"name", "status"} \ {w} :
           wait[v].state \in {"idle", "replied"} /\ wait[v].err = NoErr

\* storeDatabaseName up to its select.
storeDatabaseName ==
    /\ MayRequest("name")
    /\ toMain' = Append(toMain, [tag |-> "StoreDatabaseName", data |-> "db"])
    /\ wait' = Awaiting("name")
    /\ Registering("name")
    /\ UNCHANGED <<dmVars, startVars, storeVars, last, prev, nOps, spawned, toWorker, delivered, taskVars, answered, workerPc, returned>>

\* storeEncryptionStatus up to its select.
storeEncryptionStatus ==
    /\ MayRequest("status")
    /\ toMain' = Append(toMain,
           [tag |-> "EncryptionStatus",
            data |-> Marshal([databaseName |-> "db",
                              encryptionStatus |-> cipher])])
    /\ wait' = Awaiting("status")
    /\ Registering("status")
    /\ UNCHANGED <<dmVars, startVars, storeVars, last, prev, nOps, spawned, toWorker, delivered, taskVars, answered, workerPc, returned>>

\* storeDatabaseNameHandler on the main thread: the reply is empty or the
\* text of the error of the local storage.
storeDatabaseNameHandler(stored) ==
    /\ toMain # <<>>
    /\ Head(toMain).tag = "StoreDatabaseName"
    /\ toMain' = Tail(toMain)
    /\ toWorker' = Append(toWorker,
           [tag |-> "StoreDatabaseName",
            data |-> IF stored THEN "" ELSE "storage failed"])
    /\ answered' = answered \cup {"name"}
    /\ UNCHANGED <<regVars, dmVars, startVars, storeVars, last, prev, nOps, spawned, delivered, taskVars, wait, workerPc, returned>>

\* checkDbEncryptionStatusHandler on the main thread: a payload that does
\* not unmarshal is dropped without a reply.
checkDbEncryptionStatusHandler(stored) ==
    /\ toMain # <<>>
    /\ Head(toMain).tag = "EncryptionStatus"
    /\ toMain' = Tail(toMain)
    /\ LET msg == Unmarshal(Head(toMain).data)
       IN  IF msg.err # NoErr
           THEN UNCHANGED <<toWorker, answered, returned>>
           ELSE /\ toWorker' = Append(toWorker,
                       [tag |-> "EncryptionStatus",
                        data |-> Marshal(
                            [encryptionStatus |->
                                 stored /\ msg.v.encryptionStatus,
                             error |-> IF stored THEN ""
                                       ELSE "storage failed"])])
                /\ answered' = answered \cup {"status"}
    /\ UNCHANGED <<regVars, dmVars, startVars, storeVars, last, prev, nOps, spawned, delivered, taskVars, wait, workerPc, returned>>

\* The reply to storeDatabaseName reaches the worker.
storeDatabaseNameReply ==
    /\ toWorker # <<>>
    /\ Head(toWorker).tag = "StoreDatabaseName"
    /\ toWorker' = Tail(toWorker)
    /\ wait' = Replied("name", Head(toWorker).data,
                       ErrorOf(Head(toWorker).data))
    /\ Dispatched("name")
    /\ UNCHANGED <<dmVars, startVars, storeVars, last, prev, nOps, spawned, toMain, delivered, taskVars, answered, workerPc, returned>>

\* The reply to storeEncryptionStatus reaches the worker.
storeEncryptionStatusReply ==
    /\ toWorker # <<>>
    /\ Head(toWorker).tag = "EncryptionStatus"
    /\ toWorker' = Tail(toWorker)
    /\ LET response == Unmarshal(Head(toWorker).data)
       IN  wait' = Replied("status", Head(toWorker).data,
                           IF response.err # NoErr THEN response.err
                           ELSE ErrorOf(response.v.error))
    /\ Dispatched("status")
    /\ UNCHANGED <<dmVars, startVars, storeVars, last, prev, nOps, spawned, toMain, delivered, taskVars, answered, workerPc, returned>>

\* newWASMEventModelCB returns and the worker posts what it returned as
\* the reply to init-store: the text of the error of the request that
\* failed or of the building of the model, or nothing.
newWASMEventModelCBReturn(built) ==
    /\ workerPc = "building"
    /\ \A v \in {"name", "status"} : wait[v].state # "waiting"
    /\ (\E v \in {"name", "status"} : wait[v].err # NoErr) => ~built
    /\ toMain' = Append(toMain,
           [tag |-> "NewWASMEventModel",
            data |-> IF built THEN ""
                     ELSE IF wait["name"].err # NoErr THEN wait["name"].err
                     ELSE IF wait["status"].err # NoErr
                     THEN wait["status"].err
                     ELSE "build failed"])
    /\ answered' = answered \cup {"init"}
    /\ workerPc' = IF built THEN "built" ELSE "failed"
    /\ UNCHANGED <<regVars, dmVars, startVars, storeVars, last, prev, nOps, spawned, toWorker, delivered, taskVars, wait, returned>>

\* The reply to init-store reaches the main thread.
NewWASMEventModelReply ==
    /\ toMain # <<>>
    /\ Head(toMain).tag = "NewWASMEventModel"
    /\ toMain' = Tail(toMain)
    /\ wait' = Replied("init", Head(toMain).data, ErrorOf(Head(toMain).data))
    /\ Dispatched("init")
    /\ UNCHANGED <<dmVars, startVars, storeVars, last, prev, nOps, spawned, toWorker, delivered, taskVars, answered, workerPc, returned>>

\* The select of NewWASMEventModel, of storeDatabaseName and of
\* storeEncryptionStatus, each blocked until the reply or the timer.
TimeoutInit ==
    /\ wait["init"].state = "waiting"
    /\ TimedOut("init")

TimeoutName ==
    /\ wait["name"].state = "waiting"
    /\ TimedOut("name")

TimeoutStatus ==
    /\ wait["status"].state = "waiting"
    /\ TimedOut("status")

\* Time passes for every select that has not ended; a timer does not
\* measure past its duration.
Tick ==
    /\ \E w \in Waiters :
           wait[w].state = "waiting" /\ wait[w].elapsed < ResponseTimeout
    /\ wait' = [w \in Waiters |->
                   IF wait[w].state = "waiting" /\
                          wait[w].elapsed < ResponseTimeout
                   THEN [wait[w] EXCEPT !.elapsed = @ + 1]
                   ELSE wait[w]]
    /\ UNCHANGED <<regVars, dmVars, startVars, storeVars, last, prev, nOps, spawned, busVars, taskVars, answered, workerPc, returned>>

NextHandshake ==
    \/ Run
    \/ NewManager
    \/ NewWASMEventModelSend
    \/ newWASMEventModelCB
    \/ \E failure \in {ErrUnmarshalMessage, ErrUnmarshalCipher} : newWASMEventModelCBFails(failure)
    \/ storeDatabaseName
    \/ storeEncryptionStatus
    \/ \E stored \in BOOLEAN : storeDatabaseNameHandler(stored)
    \/ \E stored \in BOOLEAN : checkDbEncryptionStatusHandler(stored)
    \/ storeDatabaseNameReply
    \/ storeEncryptionStatusReply
    \/ \E built \in BOOLEAN : newWASMEventModelCBReturn(built)
    \/ NewWASMEventModelReply
    \/ TimeoutInit
    \/ TimeoutName
    \/ TimeoutStatus
    \/ Tick

\* The worker's main function runs to its end.  Time passes, and a
\* goroutine blocked in a select runs once its timer has fired.  Nothing
\* obliges the other side to handle a request or to reply.
SpecHandshake ==
    /\ Init
    /\ [][NextHandshake]_vars
    /\ WF_vars(Run)
    /\ WF_vars(Tick)
    /\ WF_vars(TimeoutInit) /\ WF_vars(TimeoutName) /\ WF_vars(TimeoutStatus)

----------------------------------------------------------------------------
(* Properties of the start-up.                                             *)

\* C6: a request that has failed with the timeout has waited the whole
\* response timeout, and its error is the timeout error; and each of the
\* three requests, once it awaits its reply, fails with the timeout unless
\* the other side produces a reply to it.
C6_TimeoutAtDeadline ==
    /\ [](\A w \in Waiters :
             wait[w].state = "timedOut" =>
                 /\ wait[w].elapsed >= ResponseTimeout
                 /\ wait[w].err = ErrTimeout)
    /\ \A w \in Waiters :
           (wait[w].state = "waiting") ~>
               (wait[w].state = "timedOut" \/ w \in answered)

\* The main thread never answered the encryption status, the worker never
\* answered init-store: both requests have failed with the timeout, each
\* after the whole response timeout.
C6_TimedOutUnanswered ==
    /\ wait["init"].state = "timedOut" /\ "init" \notin answered
    /\ wait["status"].state = "timedOut" /\ "status" \notin answered
    /\ wait["init"].elapsed = ResponseTimeout
    /\ wait["status"].elapsed = ResponseTimeout
    /\ wait["name"].state = "replied"

\* C23: the handler registered for the tag of a reply is the one of the
\* latest call of the request, and every reply has been handed to the
\* handler of the call that was then the latest, never to that of an
\* earlier call.
C23_ReplyToLatestHandler ==
    \A w \in Waiters :
        /\ handlerOf[w] = callNo[w]
        /\ \A p \in tookReply[w] : p[1] = p[2]

\* storeDatabaseName timed out without a reply and was called again; the
\* one reply that came was handed to the handler of the second call.
C23_ReplyAfterCalledAgain ==
    /\ callNo["name"] = 2
    /\ tookReply["name"] = {<<2, 2>>}
    /\ wait["name"].state = "replied"
    /\ ~wait["name"].late

\* The tags of the operations of the store: init-store, join, leave, the
\* three receives, the two updates, get, delete and mute.
OperationTags ==
    {"NewWASMEventModel", "JoinChannel", "LeaveChannel", "ReceiveMessage",
     "ReceiveReply", "ReceiveReaction", "UpdateFromUUID",
     "UpdateFromMessageID", "GetMessage", "DeleteMessage", "MuteUser"}

\* The handler of the reply of waiter w is at its send on the channel of
\* the request (responseChan <- data, errChan <- string(data)) and nothing
\* receives from the channel: the channel is unbuffered and the select that
\* received from it is over, so the send never completes.
BlockedOnSend(w) == wait[w].late

\* C37: a reply that arrives after its waiter has timed out is discarded:
\* the handler that receives the reply to init-store, store-database-name
\* or store-encryption-status returns, it is never left blocked on handing
\* the reply to a waiter that is gone.
C37_LateReplyDiscarded == \A w \in Waiters : ~BlockedOnSend(w)

\* C16: the worker sends the ready signal at most once, and once its thread
\* manager is made it does send it; when it sends it a handler is
\* registered for every operation; and until it has sent it the main
\* thread has sent no request and the worker has handled none.
C16_ReadyHandshake ==
    /\ [](readySent <= 1)
    /\ [][readySent' # readySent =>
             /\ readySent' = readySent + 1
             /\ OperationTags \subseteq registered]_vars
    /\ [](readySent = 0 =>
             /\ toWorker = <<>>
             /\ ~mainReady
             /\ wait["init"].state = "idle"
             /\ workerPc \notin {"building", "built", "failed"})
    /\ [][workerPc' \in {"building", "failed"} /\ workerPc' # workerPc =>
             /\ readySent = 1
             /\ OperationTags \subseteq registered]_vars
    /\ (workerPc = "manager") ~> (readySent = 1)

\* The worker handles init-store: it has sent its one ready signal, the
\* main thread has observed it, and every handler is registered.
C16_HandlingAfterReady ==
    /\ workerPc = "building"
    /\ readySent = 1
    /\ mainReady
    /\ registered = OperationTags
    /\ wait["init"].state = "waiting"

\* C17: when the worker fails to handle init-store, whether before the
\* model is built or in building it, a reply is produced and it carries the
\* text of an error; NewWASMEventModel on the main thread, when it takes that
\* reply, returns the error; it returns a model only when the worker has
\* built its model; and its wait ends, with the reply or with the timeout.
C17_InitFailureReplied ==
    /\ [](workerPc = "failed" => "init" \in answered)
    /\ [](\A i \in DOMAIN toMain :
             (toMain[i].tag = "NewWASMEventModel" /\ workerPc = "failed") =>
                 toMain[i].data # "")
    /\ []((wait["init"].state = "replied" /\ workerPc = "failed") =>
             wait["init"].err # NoErr)
    /\ []((wait["init"].state = "replied" /\ wait["init"].err = NoErr) =>
             workerPc = "built")
    /\ (wait["init"].state = "waiting") ~>
           (wait["init"].state \in {"replied", "timedOut"})

\* The cipher did not unmarshal on the worker: NewWASMEventModel on the main
\* thread took the reply and returns that error.
C17_CipherFailureReturned ==
    /\ workerPc = "failed"
    /\ wait["init"].state = "replied"
    /\ wait["init"].err = ErrUnmarshalCipher
    /\ wait["name"].state = "idle" /\ wait["status"].state = "idle"

----------------------------------------------------------------------------
(* The DM client: the wrapper of bindings.DMClient and the JavaScript      *)
(* object that exposes its methods.                                        *)

\* The exported methods declared on *DMClient.
DMClientMethods ==
    {"GetID", "GetPublicKey", "GetToken", "GetIdentity",
     "ExportPrivateIdentity", "GetNickname", "SetNickname", "IsBlocked",
     "GetBlockedSenders", "SendText", "SendReply", "SendReaction", "Send",
     "GetDatabaseName"}

\* js.FuncOf of a method value: the method, bound to its receiver.
FuncOf(api, method) == [api |-> api, method |-> method]

\* newDMClientJS: the map from names to the wrapped methods of the DMClient
\* that wraps api.
newDMClientJSWithoutSend(api) ==
    [GetID |-> FuncOf(api, "GetID"),
     GetPublicKey |-> FuncOf(api, "GetPublicKey"),
     GetToken |-> FuncOf(api, "GetToken"),
     GetIdentity |-> FuncOf(api, "GetIdentity"),
     ExportPrivateIdentity |-> FuncOf(api, "ExportPrivateIdentity"),
     GetNickname |-> FuncOf(api, "GetNickname"),
     SetNickname |-> FuncOf(api, "SetNickname"),
     IsBlocked |-> FuncOf(api, "IsBlocked"),
     GetBlockedSenders |-> FuncOf(api, "GetBlockedSenders"),
     GetDatabaseName |-> FuncOf(api, "GetDatabaseName"),
     SendText |-> FuncOf(api, "SendText"),
     SendReply |-> FuncOf(api, "SendReply"),
     SendReaction |-> FuncOf(api, "SendReaction")]
newDMClientJS(api) ==
    [GetID |-> FuncOf(api, "GetID"),
     GetPublicKey |-> FuncOf(api, "GetPublicKey"),
     GetToken |-> FuncOf(api, "GetToken"),
     GetIdentity |-> FuncOf(api, "GetIdentity"),
     ExportPrivateIdentity |-> FuncOf(api, "ExportPrivateIdentity"),
     GetNickname |-> FuncOf(api, "GetNickname"),
     SetNickname |-> FuncOf(api, "SetNickname"),
     IsBlocked |-> FuncOf(api, "IsBlocked"),
     GetBlockedSenders |-> FuncOf(api, "GetBlockedSenders"),
     GetDatabaseName |-> FuncOf(api, "GetDatabaseName"),
     SendText |-> FuncOf(api, "SendText"),
     SendReply |-> FuncOf(api, "SendReply"),
     SendReaction |-> FuncOf(api, "SendReaction"),
     Send |-> FuncOf(api, "Send")]

\* NewDMClient: a DM client is made for api and its object is returned to
\* JavaScript.
NewDMClient(api) ==
    /\ api \notin DOMAIN dmClients
    /\ dmClients' = [a \in (DOMAIN dmClients) \cup {api} |->
                        IF a = api THEN newDMClientJS(api) ELSE dmClients[a]]
    /\ UNCHANGED <<regVars, dmInvoked, dmResult, promise, startVars, storeVars, last, prev, nOps, spawned, busVars, taskVars, wait, answered, workerPc, returned>>

\* The public keys of senders, the sets of them the user may have blocked,
\* and the arguments JavaScript passes: none, or the public key of a sender.
Senders == {31, 32}
BlockedSets == {{}, {31}}
ArgLists == {<<>>} \cup {<<k>> : k \in Senders}

\* The methods whose arguments and return value are followed.
BlockingMethods == {"IsBlocked", "GetBlockedSenders"}

\* args[0] of a method: an index out of range panics.
Panic == [panic |-> TRUE]

\* DMClient.IsBlocked: dmc.api.IsBlocked of the public key in args[0],
\* which tells whether that sender is blocked.
IsBlocked(blocked, args) ==
    IF args = <<>> THEN Panic ELSE [bool |-> args[1] \in blocked]

\* DMClient.GetBlockedSenders: dmc.api.IsBlocked of the public key in
\* args[0].
GetBlockedSenders(blocked, args) ==
    IF args = <<>> THEN Panic ELSE [bool |-> args[1] \in blocked]

\* What the wrapped method returns to JavaScript; the methods that have
\* nothing to do with blocking are not followed.
MethodReturn(method, blocked, args) ==
    CASE method = "IsBlocked" -> IsBlocked(blocked, args)
      [] method = "GetBlockedSenders" -> GetBlockedSenders(blocked, args)
      [] OTHER -> [other |-> TRUE]

\* JavaScript invokes the entry of an object under a name: what runs is the
\* wrapped method the entry holds.
Invoke(api, name) ==
    /\ Len(dmInvoked) < MaxInvoked
    /\ api \in DOMAIN dmClients
    /\ name \in DOMAIN dmClients[api]
    /\ dmInvoked' = Append(dmInvoked, <<name, dmClients[api][name]>>)
    /\ \E blocked \in BlockedSets, args \in ArgLists :
           /\ dmClients[api][name].method \notin BlockingMethods =>
                  (blocked = {} /\ args = <<>>)
           /\ dmResult' = [method |-> dmClients[api][name].method,
                           args |-> args, blocked |-> blocked,
                           value |-> MethodReturn(
                               dmClients[api][name].method, blocked, args)]
    /\ UNCHANGED <<regVars, dmClients, promise, startVars, storeVars, last, prev, nOps, spawned, busVars, taskVars, wait, answered, workerPc, returned>>

\* A step of the promiseFn of the client of api has returned: with an
\* error, reject is called, and promiseFn goes on to its next step.
Stepped(api, step, ok, next) ==
    /\ promise' = [promise EXCEPT
           ![api].pc = next,
           ![api].rejects = IF ok THEN @ ELSE @ + 1,
           ![api].failedAt = IF @ = "none" /\ ~ok THEN step ELSE @,
           ![api].ranAfterFailure = @ \/ promise[api].failedAt # "none"]
    /\ UNCHANGED <<regVars, dmClients, dmInvoked, dmResult, startVars, storeVars, last, prev, nOps, spawned, busVars, taskVars, wait, answered, workerPc, returned>>

\* newDMClientWithIndexedDb: utils.CreatePromise runs promiseFn.
newDMClientWithIndexedDb(api) ==
    /\ promise[api].pc = "idle"
    /\ promise' = [promise EXCEPT ![api].pc = "identity"]
    /\ UNCHANGED <<regVars, dmClients, dmInvoked, dmResult, startVars, storeVars, last, prev, nOps, spawned, busVars, taskVars, wait, answered, workerPc, returned>>

\* codename.UnmarshalPrivateIdentity returns.
UnmarshalPrivateIdentity(api, ok) ==
    /\ promise[api].pc = "identity"
    /\ Stepped(api, "identity", ok, "model")

\* indexDB.NewWASMEventModel returns.
dmNewWASMEventModel(api, ok) ==
    /\ promise[api].pc = "model"
    /\ Stepped(api, "model", ok, "client")

\* bindings.NewDMClientWithGoEventModel returns: with an error, reject is
\* called, else resolve.
NewDMClientWithGoEventModel(api, ok) ==
    /\ promise[api].pc = "client"
    /\ promise' = [promise EXCEPT
           ![api].pc = "settled",
           ![api].rejects = IF ok THEN @ ELSE @ + 1,
           ![api].resolves = IF ok THEN @ + 1 ELSE @,
           ![api].failedAt = IF @ = "none" /\ ~ok THEN "client" ELSE @,
           ![api].ranAfterFailure = @ \/ promise[api].failedAt # "none"]
    /\ UNCHANGED <<regVars, dmClients, dmInvoked, dmResult, startVars, storeVars, last, prev, nOps, spawned, busVars, taskVars, wait, answered, workerPc, returned>>

\* The promises of the clients, each made once.
NextPromise ==
    \E api \in DMApis :
        \/ newDMClientWithIndexedDb(api)
        \/ \E ok \in BOOLEAN : UnmarshalPrivateIdentity(api, ok)
        \/ \E ok \in BOOLEAN : dmNewWASMEventModel(api, ok)
        \/ \E ok \in BOOLEAN : NewDMClientWithGoEventModel(api, ok)

SpecPromise == Init /\ [][NextPromise]_vars

NextDM ==
    \/ \E api \in DMApis : NewDMClient(api)
    \/ \E api \in DMApis, name \in DMClientMethods : Invoke(api, name)

SpecDM == Init /\ [][NextDM]_vars

\* C20: the object of a DM client has exactly the names of the exported
\* methods of DMClient as its keys, none missing and none more, and under
\* each name the wrapped method of that name of that client; so what an
\* invocation by name runs is that method.
C20_OneEntryPerMethod ==
    /\ \A api \in DOMAIN dmClients :
           /\ DOMAIN dmClients[api] = DMClientMethods
           /\ Cardinality(DOMAIN dmClients[api]) = Cardinality(DMClientMethods)
           /\ \A name \in DMClientMethods :
                  dmClients[api][name] = FuncOf(api, name)
    /\ \A i \in DOMAIN dmInvoked :
           /\ dmInvoked[i][2].method = dmInvoked[i][1]
           /\ dmInvoked[i][2].method \in DMClientMethods

\* Both clients have their object; Send of one and GetDatabaseName of the
\* other have been invoked by name.
C20_BothObjectsInvoked ==
    /\ DOMAIN dmClients = DMApis
    /\ dmInvoked = <<<<"Send", FuncOf(1, "Send")>>,
                     <<"GetDatabaseName", FuncOf(2, "GetDatabaseName")>>>>

\* C33: GetBlockedSenders returns the public keys of all the senders the
\* user has blocked, those for which IsBlocked is true, whatever its
\* arguments are, and not a boolean that tells of one sender.
C33_GetBlockedSendersReturnsKeys ==
    dmResult.method = "GetBlockedSenders" =>
        /\ dmResult.value = [keys |-> dmResult.blocked]
        /\ \A k \in Senders :
               k \in dmResult.blocked <=>
                   IsBlocked(dmResult.blocked, <<k>>) = [bool |-> TRUE]

\* C38: newDMClientWithIndexedDb settles its promise once: reject and
\* resolve are called once between them; when a step fails, reject is
\* called and no later step runs; and resolve is called only when no step
\* has failed.
C38_PromiseSettledOnce ==
    \A api \in DMApis :
        /\ promise[api].rejects + promise[api].resolves <= 1
        /\ ~promise[api].ranAfterFailure
        /\ promise[api].resolves >= 1 => promise[api].failedAt = "none"
        /\ promise[api].pc = "settled" =>
               promise[api].rejects + promise[api].resolves = 1

\* The update requests as they come over the wire: every patch field
\* travels with a value and a Set flag.  The flag patterns are none set,
\* all set, one set and all but one set; the values carried are one of two
\* bundles, each with the key the request names.
WireFields == <<"MessageID", "Timestamp", "RoundID", "Pinned", "Hidden", "Status">>
FlagPatterns ==
    {[i \in 1..6 |-> FALSE], [i \in 1..6 |-> TRUE]}
        \cup {[i \in 1..6 |-> i = k] : k \in 1..6}
        \cup {[i \in 1..6 |-> i # k] : k \in 1..6}
WireValues ==
    {<<1, "m2", 99, 98, TRUE, TRUE, 3>>, <<2, "m1", 77, 76, FALSE, TRUE, 1>>}
MessageUpdateInfo(v, set) ==
    [UUID |-> v[1],
     MessageID |-> v[2], MessageIDSet |-> set[1],
     Timestamp |-> v[3], TimestampSet |-> set[2],
     RoundID |-> v[4], RoundIDSet |-> set[3],
     Pinned |-> v[5], PinnedSet |-> set[4],
     Hidden |-> v[6], HiddenSet |-> set[5],
     Status |-> v[7], StatusSet |-> set[6]]
WireUpdates == {MessageUpdateInfo(v, set) : v \in WireValues, set \in FlagPatterns}

\* The pointers made without looking at the Set flags.
MessageUpdateInfoPointersAlways(msg) ==
    [messageID |-> Ptr(msg.MessageID), timestamp |-> Ptr(msg.Timestamp),
     round |-> Ptr(msg.RoundID), pinned |-> Ptr(msg.Pinned),
     hidden |-> Ptr(msg.Hidden), status |-> Ptr(msg.Status)]

\* The pointers the handlers make of a request: nil for a field whose Set
\* flag is false, and to the value the request carries otherwise.
MessageUpdateInfoPointers(msg) ==
    [messageID |-> IF msg.MessageIDSet THEN Ptr(msg.MessageID) ELSE NilPtr,
     timestamp |-> IF msg.TimestampSet THEN Ptr(msg.Timestamp) ELSE NilPtr,
     round |-> IF msg.RoundIDSet THEN Ptr(msg.RoundID) ELSE NilPtr,
     pinned |-> IF msg.PinnedSet THEN Ptr(msg.Pinned) ELSE NilPtr,
     hidden |-> IF msg.HiddenSet THEN Ptr(msg.Hidden) ELSE NilPtr,
     status |-> IF msg.StatusSet THEN Ptr(msg.Status) ELSE NilPtr]

\* updateFromUUIDCB: the handler of an update-by-id request calls
\* UpdateFromUUID with the key of the request and its pointers.
updateFromUUIDCB(msg) ==
    /\ msg \in WireUpdates
    /\ LET p == MessageUpdateInfoPointers(msg)
       IN  UpdateFromUUID(msg.UUID, p.messageID, p.timestamp, p.round,
                          p.pinned, p.hidden, p.status, "none")

\* The handler of an update-by-content-id request calls UpdateFromMessageID
\* with the message id of the request, its MessageIDSet flag not looked at,
\* and the pointers of the other fields.
updateFromMessageIDRequest(msg) ==
    /\ msg \in WireUpdates
    /\ LET p == MessageUpdateInfoPointers(msg)
       IN  UpdateFromMessageID(msg.MessageID, p.timestamp, p.round, p.pinned,
                               p.hidden, p.status, "none")

\* Messages are received, and update requests arrive over the wire.
NextWire ==
    \/ \E i \in MessageInputs : ReceiveMessageOf(i[1], i[2], i[3], "none")
    \/ \E msg \in WireUpdates : updateFromUUIDCB(msg)
    \/ \E msg \in WireUpdates : updateFromMessageIDRequest(msg)

SpecWire == Init /\ [][NextWire]_vars

\* The request msg is one the call recorded in r was made for.
RequestOf(msg, r) ==
    LET p == MessageUpdateInfoPointers(msg)
    IN  \/ /\ r.op = "UpdateFromUUID"
           /\ r.uuid = msg.UUID
           /\ r.patch = p
        \/ /\ r.op = "UpdateFromMessageID"
           /\ r.messageID = msg.MessageID
           /\ r.patch = [p EXCEPT !.messageID = Ptr(msg.MessageID)]

\* The Set flag of a field of a request, the value the request carries for
\* it as the store holds it, and the column of the row it goes to.
SetFlag(msg, f) ==
    CASE f = "MessageID" -> msg.MessageIDSet
      [] f = "Timestamp" -> msg.TimestampSet
      [] f = "RoundID" -> msg.RoundIDSet
      [] f = "Pinned" -> msg.PinnedSet
      [] f = "Hidden" -> msg.HiddenSet
      [] f = "Status" -> msg.StatusSet
Carried(msg, f) ==
    CASE f = "MessageID" -> [id |-> EncodeBytes(msg.MessageID)]
      [] f = "Timestamp" -> [n |-> msg.Timestamp]
      [] f = "RoundID" -> [n |-> msg.RoundID]
      [] f = "Pinned" -> [b |-> msg.Pinned]
      [] f = "Hidden" -> [b |-> msg.Hidden]
      [] f = "Status" -> [n |-> msg.Status]
Column(row, f) ==
    CASE f = "MessageID" -> [id |-> row.message_id]
      [] f = "Timestamp" -> [n |-> row.timestamp]
      [] f = "RoundID" -> [n |-> row.round]
      [] f = "Pinned" -> [b |-> row.pinned]
      [] f = "Hidden" -> [b |-> row.hidden]
      [] f = "Status" -> [n |-> row.status]

\* C31: over the wire, a patch field of an update-by-id or
\* update-by-content-id request is applied if and only if its Set flag in
\* the payload is true: when the update has stored the row, each of
\* messageID, timestamp, round, pinned, hidden and status has the value the
\* request carries when its flag is true and the value it had before when
\* its flag is false, whatever the request carries for it and whatever the
\* other flags are.
C31_SetFlagsDecide ==
    (last.op \in UpdateOps /\ last.stored) =>
        \A msg \in WireUpdates :
            RequestOf(msg, last) =>
                \A i \in 1..6 :
                    Column(messages[last.currentMsg.id], WireFields[i]) =
                        IF SetFlag(msg, WireFields[i])
                        THEN Carried(msg, WireFields[i])
                        ELSE Column(last.currentMsg, WireFields[i])

\* An update-by-id request with only the pinned flag set, carrying a
\* hidden value and a status the row does not have, has pinned the row and
\* left hidden and status as they were.
C31_PinnedSetHiddenCarried ==
    /\ last.op = "UpdateFromUUID" /\ last.stored
    /\ \E msg \in WireUpdates :
           /\ RequestOf(msg, last)
           /\ msg.PinnedSet /\ ~msg.HiddenSet /\ ~msg.StatusSet
           /\ msg.Pinned /\ msg.Hidden
           /\ msg.Hidden # last.currentMsg.hidden
           /\ msg.Status # last.currentMsg.status
    /\ ~last.currentMsg.pinned
    /\ messages[last.uuid].pinned
    /\ ~messages[last.uuid].hidden

====
